---- MODULE Spec2Model ----
(***************************************************************************)
(* Multi-provider file upload subsystem of the LMS backend:                *)
(*   utils/fileUpload.js          (FileUploadUtils)                        *)
(*   services/storage/*.js        (Local / S3 / Cloudinary providers)      *)
(*   services/FileUploadService.js (the orchestrator)                      *)
(*   config/fileUpload.js         (static policy)                          *)
(*                                                                         *)
(* Strings are sequences of tokens.  A token is a run of characters that   *)
(* the code never looks inside of, except through the tables below; the    *)
(* characters the code does look for ("/", ".", "?", the host names) are   *)
(* tokens of their own, so startsWith / includes / split / replace are      *)
(* computed on the sequence exactly as the code computes them on the text. *)
(***************************************************************************)
EXTENDS Integers, Sequences, FiniteSets, TLC

VARIABLES
    config,          \* fileUploadConfig as read from the environment at startup
    defaultStorage,  \* FileUploadService.defaultStorage
    store,           \* backend contents: provider -> set of [id, file, kind]
    dirs,            \* directories that exist on the local filesystem
    last,            \* the last orchestrator call: its arguments and its outcome
    uploads,         \* uploadFile calls in flight at the same time, each at an await
    probe,           \* the last call of a function that touches no backend
    profile,         \* the profileImage field of the entity's document
    students         \* the counters collection and the student saves in flight

vars == <<config, defaultStorage, store, dirs, last, uploads, probe, profile, students>>

-----------------------------------------------------------------------------
(* Bounds of the model *)

\* timestamps Date.now() can return
MaxTime == 1
\* files in one uploadMultiple batch (besides the over-long batch)
MaxBatch == 2
\* artifacts the backends hold before further uploads are cut off
MaxStored == 1
\* uploadFile calls that overlap in time
MaxConcurrent == 2
\* student documents whose save() calls overlap in time
MaxSaves == 3

-----------------------------------------------------------------------------
(* String primitives *)

Min(a, b) == IF a < b THEN a ELSE b

\* String.prototype.startsWith
StartsWith(s, p) == Len(s) >= Len(p) /\ SubSeq(s, 1, Len(p)) = p

\* String.prototype.indexOf, 1-based, 0 when absent
IndexOf(s, p) ==
    LET first(hits) ==
            IF hits = {} THEN 0 ELSE CHOOSE i \in hits : \A j \in hits : i <= j
    IN  first({i \in 1..(Len(s) - Len(p) + 1) : SubSeq(s, i, i + Len(p) - 1) = p})

\* String.prototype.lastIndexOf, 1-based, 0 when absent
LastIndexOf(s, p) ==
    LET lastOf(hits) ==
            IF hits = {} THEN 0 ELSE CHOOSE i \in hits : \A j \in hits : i >= j
    IN  lastOf({i \in 1..(Len(s) - Len(p) + 1) : SubSeq(s, i, i + Len(p) - 1) = p})

\* String.prototype.includes
Includes(s, p) == IndexOf(s, p) # 0

\* String.prototype.replace with a string pattern: the first occurrence only
ReplaceFirst(s, p, r) ==
    LET at(i) ==
            IF i = 0 THEN s
            ELSE SubSeq(s, 1, i - 1) \o r \o SubSeq(s, i + Len(p), Len(s))
    IN  at(IndexOf(s, p))

\* String.prototype.split('/')
RECURSIVE Split(_)
Split(s) ==
    LET at(i) ==
            IF i = 0 THEN <<s>>
            ELSE <<SubSeq(s, 1, i - 1)>> \o Split(SubSeq(s, i + 1, Len(s)))
    IN  at(IndexOf(s, <<"/">>))

\* Array.prototype.join('/')
RECURSIVE Join(_)
Join(parts) ==
    IF Len(parts) = 0 THEN <<>>
    ELSE IF Len(parts) = 1 THEN parts[1]
    ELSE parts[1] \o <<"/">> \o Join(Tail(parts))

\* characters of a token (String.prototype.length counts characters)
TokenLength(t) ==
    CASE t = "amazonaws.com" -> 13
      [] t = "cloudinary.com" -> 14
      [] t = "thumb_" -> 6
      [] t \in {"png", "pdf", "exe", "PNG"} -> 3
      [] t = "cv" -> 2
      [] OTHER -> 1

RECURSIVE StrLength(_)
StrLength(s) == IF s = <<>> THEN 0 ELSE TokenLength(Head(s)) + StrLength(Tail(s))

\* String.prototype.toLowerCase, token by token
LowerToken(t) == IF t = "PNG" THEN "png" ELSE t
ToLowerCase(s) == [i \in 1..Len(s) |-> LowerToken(s[i])]

\* single-character tokens outside [a-zA-Z0-9.-]
UnsafeTokens == {"/", "?", " ", ":", "_"}

-----------------------------------------------------------------------------
(* path module of Node *)

\* path.normalize on the segments of a relative or absolute path
RECURSIVE NormalizeSegments(_, _, _)
NormalizeSegments(segs, acc, absolute) ==
    IF Len(segs) = 0 THEN acc
    ELSE LET h == Head(segs)
             t == Tail(segs)
         IN  IF h = <<>> \/ h = <<".">> THEN NormalizeSegments(t, acc, absolute)
             ELSE IF h = <<".", ".">>
                  THEN IF Len(acc) > 0 /\ acc[Len(acc)] # <<".", ".">>
                       THEN NormalizeSegments(t, SubSeq(acc, 1, Len(acc) - 1), absolute)
                       ELSE IF absolute THEN NormalizeSegments(t, acc, absolute)
                       ELSE NormalizeSegments(t, Append(acc, h), absolute)
                  ELSE NormalizeSegments(t, Append(acc, h), absolute)

PathNormalize(p) ==
    LET render(absolute, body) ==
            IF absolute THEN <<"/">> \o body
            ELSE IF body = <<>> THEN <<".">> ELSE body
        normal(absolute) ==
            render(absolute, Join(NormalizeSegments(Split(p), <<>>, absolute)))
    IN  normal(StartsWith(p, <<"/">>))

\* path.join(a, b)
PathJoin(a, b) ==
    PathNormalize(IF a = <<>> THEN b
                  ELSE IF b = <<>> THEN a
                  ELSE a \o <<"/">> \o b)

\* path.dirname
PathDirname(p) ==
    LET upTo(i) ==
            IF i = 0 THEN <<".">>
            ELSE IF i = 1 THEN <<"/">>
            ELSE SubSeq(p, 1, i - 1)
    IN  upTo(LastIndexOf(p, <<"/">>))

\* path.basename
PathBasename(p) == SubSeq(p, LastIndexOf(p, <<"/">>) + 1, Len(p))

\* path.extname: from the last "." of the basename, "" when there is none or
\* when the basename starts with its only "."
PathExtname(p) ==
    LET from(b, i) == IF i = 0 \/ i = 1 THEN <<>> ELSE SubSeq(b, i, Len(b))
        ext(b) == from(b, LastIndexOf(b, <<".">>))
    IN  ext(PathBasename(p))

-----------------------------------------------------------------------------
(* config/fileUpload.js *)

Providers == {"local", "cloudinary", "s3"}

\* names a request or the environment may give for a storage type
StorageNames == Providers \cup {"ftp"}

\* options.storageType when the caller leaves it out
Undefined == "undefined"

LocalUploadPath == <<".", "/", "uploads">>
CloudinaryFolder == <<"maitexa">>
S3Folder == <<"maitexa">>
S3Host == <<"bucket", ".s3.", "us-east-1", ".", "amazonaws.com">>
CloudinaryHost == <<"res.", "cloudinary.com">>

MinFileSize == 1024
LocalMaxFileSize == 10485760
CloudinaryMaxFileSize == 10485760
S3MaxFileSize == 10485760
MaxFileNameLength == 255
MultipleMaxCount == 10

MaxFileSize(storageType) ==
    CASE storageType = "cloudinary" -> CloudinaryMaxFileSize
      [] storageType = "s3" -> S3MaxFileSize
      [] OTHER -> LocalMaxFileSize

Mime(type, subtype) == <<type, "/">> \o subtype

LocalAllowedMimeTypes == {
    Mime("image", <<"jpeg">>), Mime("image", <<"png">>),
    Mime("image", <<"gif">>), Mime("image", <<"webp">>),
    Mime("application", <<"pdf">>),
    Mime("application", <<"ms", "word">>),
    Mime("application", <<"vnd.openxmlformats-officedocument.", "word", "processingml.document">>),
    Mime("application", <<"vnd.ms-", "excel">>),
    Mime("application", <<"vnd.openxmlformats-officedocument.", "spreadsheetml.sheet">>),
    Mime("text", <<"plain">>), Mime("text", <<"csv">>),
    Mime("application", <<"zip">>),
    Mime("application", <<"x-", "rar", "-compressed">>) }

CloudinaryAllowedFormats ==
    {<<"jpg">>, <<"jpeg">>, <<"png">>, <<"gif">>, <<"webp">>, <<"pdf">>, <<"doc">>, <<"docx">>}

S3AllowedFormats == CloudinaryAllowedFormats \cup {<<"zip">>, <<"rar">>}

\* uploadTypes.named.fields, in declaration order
NamedFieldOrder == <<"profile", "resume", "certificate", "assignment">>
NamedFields ==
    [profile     |-> [maxCount |-> 1,  allowedTypes |-> {"image"}],
     resume      |-> [maxCount |-> 1,  allowedTypes |-> {"document"}],
     certificate |-> [maxCount |-> 5,  allowedTypes |-> {"image", "document"}],
     assignment  |-> [maxCount |-> 10, allowedTypes |-> {"document", "archive"}]]

UploadTypesConfig == {"single", "multiple", "named"}

\* the environments the process is started in: which credentials are
\* present, DEFAULT_STORAGE, GENERATE_THUMBNAILS, ENABLE_IMAGE_OPTIMIZATION
Env(d, s3, cloudinary, thumbnails, optimization) ==
    [defaultStorage |-> d, s3Configured |-> s3, cloudinaryConfigured |-> cloudinary,
     generateThumbnails |-> thumbnails, enableImageOptimization |-> optimization]

Configs ==
    {Env("local", TRUE, TRUE, TRUE, TRUE),
     Env("s3", TRUE, FALSE, TRUE, FALSE),
     Env("s3", FALSE, TRUE, FALSE, FALSE),
     Env("cloudinary", TRUE, TRUE, FALSE, TRUE),
     Env("cloudinary", FALSE, FALSE, TRUE, FALSE),
     Env("ftp", TRUE, TRUE, TRUE, FALSE)}

-----------------------------------------------------------------------------
(* Errors: AppError(message, statusCode) *)

NoError == [status |-> 0, message |-> ""]
AppError(message, statusCode) == [status |-> statusCode, message |-> message]
IsError(e) == e.status # 0

-----------------------------------------------------------------------------
(* utils/fileUpload.js *)

\* `${timestamp}_${randomString}_${sanitizedName}.${extension}`
generateUniqueFilename(originalName, extension, timestamp, randomString) ==
    LET sanitizedName ==
            [i \in 1..Len(originalName) |->
                IF originalName[i] \in UnsafeTokens THEN "_" ELSE originalName[i]]
    IN  <<ToString(timestamp), "_", randomString, "_">> \o sanitizedName
            \o <<".">> \o extension

\* path.extname(filename).toLowerCase().substring(1)
getFileExtension(filename) ==
    LET substring1(e) == IF e = <<>> THEN <<>> ELSE Tail(e)
    IN  substring1(ToLowerCase(PathExtname(filename)))

getFileTypeCategory(mimeType) ==
    IF StartsWith(mimeType, <<"image", "/">>) THEN "image"
    ELSE IF StartsWith(mimeType, <<"video", "/">>) THEN "video"
    ELSE IF StartsWith(mimeType, <<"audio", "/">>) THEN "audio"
    ELSE IF StartsWith(mimeType, <<"application", "/", "pdf">>) THEN "document"
    ELSE IF Includes(mimeType, <<"word">>) \/ Includes(mimeType, <<"excel">>)
            \/ Includes(mimeType, <<"powerpoint">>) THEN "document"
    ELSE IF Includes(mimeType, <<"zip">>) \/ Includes(mimeType, <<"rar">>)
            \/ Includes(mimeType, <<"tar">>) THEN "archive"
    ELSE IF StartsWith(mimeType, <<"text", "/">>) THEN "text"
    ELSE "other"

\* validateFileSize without the minimum (mutation of validateFileSize)
validateFileSizeNoMinimum(fileSize, storageType) ==
    IF fileSize > MaxFileSize(storageType)
    THEN AppError("File size exceeds maximum limit", 400)
    ELSE NoError

validateFileSize(fileSize, storageType) ==
    IF fileSize < MinFileSize THEN AppError("File size is too small", 400)
    ELSE IF fileSize > MaxFileSize(storageType)
         THEN AppError("File size exceeds maximum limit", 400)
    ELSE NoError

\* a TypeError is no AppError: it carries no statusCode
TypeError == [status |-> -1, message |-> "TypeError"]

\* only the local configuration has allowedMimeTypes: for "cloudinary" and
\* "s3" config.allowedMimeTypes is undefined and .includes raises
validateFileType(mimeType, storageType) ==
    IF storageType \in {"cloudinary", "s3"} THEN TypeError
    ELSE IF mimeType \notin LocalAllowedMimeTypes
         THEN AppError("File type is not allowed", 400)
    ELSE NoError

validateFilename(filename) ==
    IF Len(filename) = 0 THEN AppError("Filename is required", 400)
    ELSE IF StrLength(filename) > MaxFileNameLength
         THEN AppError("Filename is too long", 400)
    ELSE IF \E i \in 1..Len(filename) : filename[i] \in {"/", "?", ":"}
         THEN AppError("Filename contains invalid characters", 400)
    ELSE NoError

getUploadPath(uploadType, storageType) ==
    IF storageType = "local" THEN PathJoin(LocalUploadPath, uploadType)
    ELSE uploadType

\* the configuration of the upload type, or the error thrown
validateUploadType(uploadType, fieldName) ==
    IF uploadType \notin UploadTypesConfig
    THEN AppError("Invalid upload type", 400)
    ELSE IF uploadType = "named" /\ fieldName \notin DOMAIN NamedFields
         THEN AppError("Invalid field name", 400)
    ELSE NoError

-----------------------------------------------------------------------------
(* The files of the requests: multer's { originalname, mimetype, buffer } *)

Files ==
    [img   |-> [originalname |-> <<"a", ".", "png">>,
                mimetype |-> Mime("image", <<"png">>), size |-> 2048],
     pdf   |-> [originalname |-> <<"cv", ".", "pdf">>,
                mimetype |-> Mime("application", <<"pdf">>), size |-> 2048],
     small |-> [originalname |-> <<"s", ".", "png">>,
                mimetype |-> Mime("image", <<"png">>), size |-> 50],
     big   |-> [originalname |-> <<"b", ".", "pdf">>,
                mimetype |-> Mime("application", <<"pdf">>), size |-> LocalMaxFileSize + 1],
     bad   |-> [originalname |-> <<"q", "?", ".", "png">>,
                mimetype |-> Mime("image", <<"png">>), size |-> 2048],
     exe   |-> [originalname |-> <<"x", ".", "exe">>,
                mimetype |-> Mime("application", <<"x-msdownload">>), size |-> 2048],
     \* an executable declared as such, under the name of a picture
     fake  |-> [originalname |-> <<"f", ".", "png">>,
                mimetype |-> Mime("application", <<"x-msdownload">>), size |-> 2048],
     \* pictures whose names hold the host names the orchestrator looks for
     s3named |-> [originalname |-> <<"amazonaws.com", ".", "png">>,
                  mimetype |-> Mime("image", <<"png">>), size |-> 2048],
     cloudinarynamed |-> [originalname |-> <<"cloudinary.com", ".", "png">>,
                          mimetype |-> Mime("image", <<"png">>), size |-> 2048]]

\* the files whose names or declared types are chosen to mislead
MisleadingFileIds == {"fake", "s3named", "cloudinarynamed"}

FileIds == DOMAIN Files \ MisleadingFileIds

\* what Date.now(), uuidv4() and the backends do during one uploadFile call
Times == 1..MaxTime
RandomStrings == {"r1"}
Faults == {"none", "mkdir", "write", "thumbgen", "thumbwrite"}
Envs == [timestamp : Times, randomString : RandomStrings, fault : Faults]

UploadTypes == {<<"general">>}
UploadOptions == [uploadType : UploadTypes, generateThumbnail : BOOLEAN]

-----------------------------------------------------------------------------
(* Backend contents *)

\* w = [store, dirs]; an artifact is [id, file, kind]
Exists(w, p, id) == \E a \in w.store[p] : a.id = id

Put(w, p, id, file, kind) ==
    [w EXCEPT !.store[p] =
        {a \in @ : a.id # id} \cup {[id |-> id, file |-> file, kind |-> kind]}]

Remove(w, p, id) == [w EXCEPT !.store[p] = {a \in @ : a.id # id}]

\* every proper ancestor directory of a normalized path, and the path itself
RECURSIVE Ancestors(_)
Ancestors(path) ==
    IF LastIndexOf(path, <<"/">>) <= 1 THEN {path}
    ELSE {path} \cup Ancestors(PathDirname(path))

\* fs.ensureDir
EnsureDir(w, path) == [w EXCEPT !.dirs = @ \cup Ancestors(path)]

\* fs.pathExists: a file or a directory
PathExists(w, path) ==
    LET present(n) == Exists(w, "local", n) \/ n \in w.dirs
    IN  present(PathNormalize(path))

\* fs.remove: a file, or a directory with everything below it
FsRemove(w, path) ==
    LET remove(n) ==
            [store |-> [w.store EXCEPT !["local"] =
                            {a \in @ : ~(a.id = n \/ StartsWith(a.id, n \o <<"/">>))}],
             dirs |-> {d \in w.dirs : ~(d = n \/ StartsWith(d, n \o <<"/">>))}]
    IN  remove(PathNormalize(path))

-----------------------------------------------------------------------------
(* Results *)

FailureRecord(originalName, message) ==
    [success |-> FALSE, originalName |-> originalName, error |-> message,
     filename |-> <<>>, mimeType |-> <<>>, size |-> 0, url |-> <<>>,
     thumbnailUrl |-> <<>>, id |-> <<>>, hash |-> "", storageType |-> ""]

\* what uploadFile hands back: the error thrown (NoError when it returned),
\* its result, the backend afterwards, the backend operations it invoked, the
\* identifiers it wrote and the backend operation that failed ("none" if none did)
Outcome(error, result, w, calls, written, fault) ==
    [error |-> error, result |-> result, w |-> w, calls |-> calls,
     written |-> written, fault |-> fault]

IsImage(mimeType) == StartsWith(mimeType, <<"image", "/">>)

\* FileUploadUtils.optimizeImage: the original buffer when optimization is
\* off (or sharp fails, which gives the same), a re-encoded one otherwise
optimizeImage(cfg, env) ==
    IF ~cfg.enableImageOptimization THEN "original" ELSE "optimized"

\* generateThumbnail that cannot fail (mutation of generateThumbnail)
generateThumbnailNeverFails(cfg, env) == TRUE

\* FileUploadUtils.generateThumbnail: null (FALSE) when thumbnails are off or
\* sharp fails
generateThumbnail(cfg, env) ==
    cfg.generateThumbnails /\ env.fault # "thumbgen"

\* a Buffer: the bytes of a request's file, as received ("original") or as
\* sharp re-encoded them ("optimized")
Buffer(f, kind) == [file |-> f, kind |-> kind]

\* buffer.length
BufferLength(buffer) ==
    IF buffer.kind = "optimized" THEN Files[buffer.file].size \div 2
    ELSE Files[buffer.file].size

\* processedBuffer of uploadFile: the optimized bytes of an image, the bytes
\* received of any other file
ProcessedBuffer(cfg, f, env) ==
    Buffer(f, IF IsImage(Files[f].mimetype) THEN optimizeImage(cfg, env) ELSE "original")

\* FileUploadUtils.calculateFileHash: the md5 digest, which tells different
\* bytes apart
calculateFileHash(buffer) == <<"md5", buffer.file, buffer.kind>>

\* the stored bytes reported instead (mutation of ReportedBuffer)
ReportedBufferIsStored(fileBuffer, processedBuffer) == processedBuffer

\* the buffer whose length and digest uploadFile puts in its result:
\* fileBuffer, not processedBuffer
ReportedBuffer(fileBuffer, processedBuffer) == fileBuffer

-----------------------------------------------------------------------------
(* services/storage/LocalStorageService.js *)

LocalUrl(uploadType, name) == <<"/", "uploads", "/">> \o uploadType \o <<"/">> \o name

\* every throw inside uploadFile is caught and replaced by this one
LocalUploadError == AppError("Failed to upload file", 500)

LocalUploadFile(cfg, w, f, options, env) ==
    LET failed(file, wx, calls, written, fault) ==
            Outcome(LocalUploadError,
                    FailureRecord(file.originalname, LocalUploadError.message),
                    wx, calls, written, fault)
        result(file, uniqueFilename, filePath, thumb) ==
            [success |-> TRUE, originalName |-> file.originalname, error |-> "",
             filename |-> uniqueFilename, mimeType |-> file.mimetype,
             size |-> BufferLength(ReportedBuffer(Buffer(f, "original"),
                                                  ProcessedBuffer(cfg, f, env))),
             url |-> LocalUrl(options.uploadType, uniqueFilename),
             thumbnailUrl |-> IF thumb
                              THEN LocalUrl(options.uploadType, <<"thumb_">> \o uniqueFilename)
                              ELSE <<>>,
             id |-> filePath,
             hash |-> calculateFileHash(ReportedBuffer(Buffer(f, "original"),
                                                       ProcessedBuffer(cfg, f, env))),
             storageType |-> "local"]
        \* fs.writeFile(thumbnailPath, thumbnailBuffer), then the result
        writeThumbnail(file, uniqueFilename, filePath, thumbnailPath, w2) ==
            IF env.fault = "thumbwrite"
            THEN failed(file, w2, <<"ensureDir", "writeFile", "writeFile">>, {filePath},
                        "thumbwrite")
            ELSE Outcome(NoError, result(file, uniqueFilename, filePath, TRUE),
                         Put(w2, "local", thumbnailPath, f, "thumbnail"),
                         <<"ensureDir", "writeFile", "writeFile">>,
                         {filePath, thumbnailPath}, "none")
        \* fs.writeFile(filePath, processedBuffer), then the thumbnail of an image
        writeFile(file, uploadPath, uniqueFilename, filePath, w1) ==
            IF env.fault = "write"
            THEN failed(file, w1, <<"ensureDir", "writeFile">>, {}, "write")
            ELSE IF ~(IsImage(file.mimetype) /\ options.generateThumbnail
                      /\ generateThumbnail(cfg, env))
            THEN Outcome(NoError, result(file, uniqueFilename, filePath, FALSE),
                         Put(w1, "local", filePath, f,
                             IF IsImage(file.mimetype) THEN optimizeImage(cfg, env)
                             ELSE "original"),
                         <<"ensureDir", "writeFile">>, {filePath}, "none")
            ELSE writeThumbnail(file, uniqueFilename, filePath,
                                PathJoin(uploadPath, <<"thumb_">> \o uniqueFilename),
                                Put(w1, "local", filePath, f, optimizeImage(cfg, env)))
        \* ensureDirectoryExists(uploadPath), then the writes
        makeDirectory(file, uploadPath, uniqueFilename) ==
            IF env.fault = "mkdir" THEN failed(file, w, <<"ensureDir">>, {}, "mkdir")
            ELSE writeFile(file, uploadPath, uniqueFilename,
                           PathJoin(uploadPath, uniqueFilename), EnsureDir(w, uploadPath))
        \* the validations, then the names
        upload(file) ==
            IF \/ IsError(validateFileSize(file.size, "local"))
               \/ IsError(validateFileType(file.mimetype, "local"))
               \/ IsError(validateFilename(file.originalname))
            THEN failed(file, w, <<>>, {}, "none")
            ELSE makeDirectory(file, getUploadPath(options.uploadType, "local"),
                        generateUniqueFilename(file.originalname,
                                               getFileExtension(file.originalname),
                                               env.timestamp, env.randomString))
    IN  upload(Files[f])

\* the filesystem path a file identifier stands for
LocalResolve(fileId) ==
    IF StartsWith(fileId, <<"/", "uploads", "/">>)
    THEN PathJoin(LocalUploadPath, ReplaceFirst(fileId, <<"/", "uploads", "/">>, <<>>))
    ELSE fileId

LocalDeleteError == AppError("Failed to delete file", 500)

\* [error, returned, w, calls, resolved]; env.fault "write" fails fs.remove of
\* the file, "thumbwrite" fs.remove of the thumbnail
LocalDeleteFile(w, fileId, env) ==
    LET out(error, wx, calls, filePath) ==
            [error |-> error, returned |-> ~IsError(error), w |-> wx,
             calls |-> calls, resolved |-> filePath]
        \* the thumbnail, once the file is removed
        removeThumbnail(filePath, thumbnailPath, w1) ==
            IF ~PathExists(w1, thumbnailPath)
            THEN out(NoError, w1, <<"pathExists", "remove", "pathExists">>, filePath)
            ELSE IF env.fault = "thumbwrite"
            THEN out(LocalDeleteError, w1,
                     <<"pathExists", "remove", "pathExists", "remove">>, filePath)
            ELSE out(NoError, FsRemove(w1, thumbnailPath),
                     <<"pathExists", "remove", "pathExists", "remove">>, filePath)
        remove(filePath) ==
            IF ~PathExists(w, filePath)
            THEN out(LocalDeleteError, w, <<"pathExists">>, filePath)
            ELSE IF env.fault = "write"
            THEN out(LocalDeleteError, w, <<"pathExists", "remove">>, filePath)
            ELSE removeThumbnail(filePath,
                                 PathJoin(PathDirname(filePath),
                                          <<"thumb_">> \o PathBasename(filePath)),
                                 FsRemove(w, filePath))
    IN  remove(LocalResolve(fileId))

LocalFileExists(w, fileId) == PathExists(w, LocalResolve(fileId))

\* !!this.config.uploadPath
LocalValidateConfig(cfg) == LocalUploadPath # <<>>

-----------------------------------------------------------------------------
(* services/storage/S3StorageService.js *)

S3Key(uploadType, name) == S3Folder \o <<"/">> \o uploadType \o <<"/">> \o name

\* `https://${bucketName}.s3.${region}.amazonaws.com/${key}`, also the
\* Location s3.upload reports
S3Url(key) == <<"https:", "/", "/">> \o S3Host \o <<"/">> \o key

S3UploadError == AppError("Failed to upload file to S3", 500)

S3UploadFile(cfg, w, f, options, env) ==
    LET failed(file, wx, calls, written, fault) ==
            Outcome(S3UploadError, FailureRecord(file.originalname, S3UploadError.message),
                    wx, calls, written, fault)
        result(file, uniqueFilename, s3Key, thumbnailUrl) ==
            [success |-> TRUE, originalName |-> file.originalname, error |-> "",
             filename |-> uniqueFilename, mimeType |-> file.mimetype,
             size |-> BufferLength(ReportedBuffer(Buffer(f, "original"),
                                                  ProcessedBuffer(cfg, f, env))),
             url |-> S3Url(s3Key), thumbnailUrl |-> thumbnailUrl,
             id |-> s3Key,
             hash |-> calculateFileHash(ReportedBuffer(Buffer(f, "original"),
                                                       ProcessedBuffer(cfg, f, env))),
             storageType |-> "s3"]
        \* s3.upload(thumbnailParams), then the result
        uploadThumbnail(file, uniqueFilename, s3Key, thumbnailKey, w1) ==
            IF env.fault = "thumbwrite"
            THEN failed(file, w1, <<"s3.upload", "s3.upload">>, {s3Key}, "thumbwrite")
            ELSE Outcome(NoError, result(file, uniqueFilename, s3Key, S3Url(thumbnailKey)),
                         Put(w1, "s3", thumbnailKey, f, "thumbnail"),
                         <<"s3.upload", "s3.upload">>, {s3Key, thumbnailKey}, "none")
        \* s3.upload(uploadParams), then the thumbnail of an image
        send(file, uniqueFilename, s3Key) ==
            IF env.fault = "write" THEN failed(file, w, <<"s3.upload">>, {}, "write")
            ELSE IF ~(IsImage(file.mimetype) /\ options.generateThumbnail
                      /\ generateThumbnail(cfg, env))
            THEN Outcome(NoError, result(file, uniqueFilename, s3Key, <<>>),
                         Put(w, "s3", s3Key, f,
                             IF IsImage(file.mimetype) THEN optimizeImage(cfg, env)
                             ELSE "original"),
                         <<"s3.upload">>, {s3Key}, "none")
            ELSE uploadThumbnail(file, uniqueFilename, s3Key,
                                 S3Key(options.uploadType, <<"thumb_">> \o uniqueFilename),
                                 Put(w, "s3", s3Key, f, optimizeImage(cfg, env)))
        name(file, uniqueFilename) ==
            send(file, uniqueFilename, S3Key(options.uploadType, uniqueFilename))
        \* the validations, then the names
        upload(file, extension) ==
            IF \/ IsError(validateFileSize(file.size, "s3"))
               \/ IsError(validateFilename(file.originalname))
               \/ ToLowerCase(extension) \notin S3AllowedFormats
            THEN failed(file, w, <<>>, {}, "none")
            ELSE name(file, generateUniqueFilename(file.originalname, extension,
                                                   env.timestamp, env.randomString))
    IN  upload(Files[f], getFileExtension(Files[f].originalname))

\* Array.prototype.findIndex, 1-based, 0 when no element passes:
\* tests[i] is the callback's answer for element i
FindIndex(tests) ==
    LET first(hits) ==
            IF hits = {} THEN 0 ELSE CHOOSE i \in hits : \A j \in hits : i <= j
    IN  first({i \in 1..Len(tests) : tests[i]})

\* the object key a file identifier stands for
S3Resolve(fileId) ==
    LET key(urlParts, bucketIndex) ==
            IF bucketIndex # 0 /\ bucketIndex + 1 <= Len(urlParts)
                /\ urlParts[bucketIndex + 1] # <<>>
            THEN Join(SubSeq(urlParts, bucketIndex + 1, Len(urlParts)))
            ELSE fileId
        find(urlParts) ==
            key(urlParts,
                FindIndex([i \in 1..Len(urlParts) |-> Includes(urlParts[i], <<".s3.">>)]))
    IN  IF Includes(fileId, <<"amazonaws.com">>) THEN find(Split(fileId)) ELSE fileId

S3DeleteError == AppError("Failed to delete file from S3", 500)

\* deleteObject succeeds on a key that holds nothing; a failure to delete
\* the thumbnail is caught and ignored
S3DeleteFile(w, fileId, env) ==
    LET out(error, wx, calls, s3Key) ==
            [error |-> error, returned |-> ~IsError(error), w |-> wx,
             calls |-> calls, resolved |-> s3Key]
        \* dir and filename of the key, and the thumbnail beside it
        thumbnailKey(s3Key, slash) ==
            SubSeq(s3Key, 1, slash - 1) \o <<"/", "thumb_">>
                \o SubSeq(s3Key, slash + 1, Len(s3Key))
        deleteThumbnail(s3Key, w1) ==
            IF env.fault = "thumbwrite"
            THEN out(NoError, w1, <<"s3.deleteObject", "s3.deleteObject">>, s3Key)
            ELSE out(NoError,
                     Remove(w1, "s3", thumbnailKey(s3Key, LastIndexOf(s3Key, <<"/">>))),
                     <<"s3.deleteObject", "s3.deleteObject">>, s3Key)
        delete(s3Key) ==
            IF env.fault = "write" THEN out(S3DeleteError, w, <<"s3.deleteObject">>, s3Key)
            ELSE deleteThumbnail(s3Key, Remove(w, "s3", s3Key))
    IN  delete(S3Resolve(fileId))

\* getFileInfo runs headObject on the resolved key and fileExists reports
\* whether it returned
S3FileExists(w, fileId) == Exists(w, "s3", S3Resolve(fileId))

S3ValidateConfig(cfg) == cfg.s3Configured

-----------------------------------------------------------------------------
(* services/storage/CloudinaryStorageService.js *)

\* the public id of an asset uploaded with options folder and public_id
CloudinaryPublicId(uploadType, name) ==
    CloudinaryFolder \o <<"/">> \o uploadType \o <<"/">> \o name

\* secure_url: .../<cloud>/<resource type>/upload/v<version>/<public id>.<format>
CloudinaryUrl(publicId, format) ==
    <<"https:", "/", "/">> \o CloudinaryHost
        \o <<"/", "cloud", "/", "image", "/", "upload", "/", "v1", "/">>
        \o publicId \o <<".">> \o format

CloudinaryUploadError == AppError("Failed to upload file to Cloudinary", 500)

\* the thumbnail is uploaded with the folder and public_id of the main asset
CloudinaryUploadFile(cfg, w, f, options, env) ==
    LET failed(file, wx, calls, written, fault) ==
            Outcome(CloudinaryUploadError,
                    FailureRecord(file.originalname, CloudinaryUploadError.message),
                    wx, calls, written, fault)
        result(file, extension, uniqueFilename, publicId, thumb) ==
            [success |-> TRUE, originalName |-> file.originalname, error |-> "",
             filename |-> uniqueFilename, mimeType |-> file.mimetype,
             size |-> BufferLength(ReportedBuffer(Buffer(f, "original"),
                                                  Buffer(f, "original"))),
             url |-> CloudinaryUrl(publicId, extension),
             thumbnailUrl |-> IF thumb THEN CloudinaryUrl(publicId, extension) ELSE <<>>,
             id |-> publicId,
             hash |-> calculateFileHash(ReportedBuffer(Buffer(f, "original"),
                                                       Buffer(f, "original"))),
             storageType |-> "cloudinary"]
        \* uploader.upload(base64Data, thumbnailOptions), then the result
        uploadThumbnail(file, extension, uniqueFilename, publicId, w1) ==
            IF env.fault = "thumbwrite"
            THEN failed(file, w1, <<"uploader.upload", "uploader.upload">>, {publicId},
                        "thumbwrite")
            ELSE Outcome(NoError, result(file, extension, uniqueFilename, publicId, TRUE),
                         Put(w1, "cloudinary", publicId, f, "thumbnail"),
                         <<"uploader.upload", "uploader.upload">>, {publicId}, "none")
        \* uploader.upload(base64Data, uploadOptions), then the thumbnail of an image
        send(file, extension, uniqueFilename, publicId) ==
            IF env.fault = "write" THEN failed(file, w, <<"uploader.upload">>, {}, "write")
            ELSE IF ~(IsImage(file.mimetype) /\ options.generateThumbnail)
            THEN Outcome(NoError, result(file, extension, uniqueFilename, publicId, FALSE),
                         Put(w, "cloudinary", publicId, f, "original"),
                         <<"uploader.upload">>, {publicId}, "none")
            ELSE uploadThumbnail(file, extension, uniqueFilename, publicId,
                                 Put(w, "cloudinary", publicId, f, "original"))
        name(file, extension, uniqueFilename) ==
            send(file, extension, uniqueFilename,
                    CloudinaryPublicId(options.uploadType,
                                       ReplaceFirst(uniqueFilename, <<".">> \o extension,
                                                    <<>>)))
        \* the validations, then the names
        upload(file, extension) ==
            IF \/ IsError(validateFileSize(file.size, "cloudinary"))
               \/ IsError(validateFilename(file.originalname))
               \/ ToLowerCase(extension) \notin CloudinaryAllowedFormats
            THEN failed(file, w, <<>>, {}, "none")
            ELSE name(file, extension,
                      generateUniqueFilename(file.originalname, extension,
                                             env.timestamp, env.randomString))
    IN  upload(Files[f], getFileExtension(Files[f].originalname))

\* part.replace(/\.[^/.]+$/, '')
StripExtension(part) ==
    LET strip(dot) ==
            IF dot # 0 /\ dot < Len(part) THEN SubSeq(part, 1, dot - 1) ELSE part
    IN  strip(LastIndexOf(part, <<".">>))

\* the public id a file identifier stands for
CloudinaryResolve(fileId) ==
    LET id(urlParts, uploadIndex) ==
            IF uploadIndex # 0 /\ uploadIndex + 2 <= Len(urlParts)
                /\ urlParts[uploadIndex + 2] # <<>>
            THEN StripExtension(urlParts[uploadIndex + 2])
            ELSE fileId
        find(urlParts) ==
            id(urlParts, FindIndex([i \in 1..Len(urlParts) |-> urlParts[i] = <<"upload">>]))
    IN  IF Includes(fileId, <<"cloudinary.com">>) THEN find(Split(fileId)) ELSE fileId

CloudinaryDeleteError == AppError("Failed to delete file from Cloudinary", 500)

\* uploader.destroy answers 'ok' or 'not found'; both return true
CloudinaryDeleteFile(w, fileId, env) ==
    LET out(error, wx, calls, publicId) ==
            [error |-> error, returned |-> ~IsError(error), w |-> wx,
             calls |-> calls, resolved |-> publicId]
        destroy(publicId) ==
            IF env.fault = "write"
            THEN out(CloudinaryDeleteError, w, <<"uploader.destroy">>, publicId)
            ELSE out(NoError, Remove(w, "cloudinary", publicId), <<"uploader.destroy">>,
                     publicId)
    IN  destroy(CloudinaryResolve(fileId))

\* getFileInfo runs api.resource on the resolved id and fileExists reports
\* whether it returned
CloudinaryFileExists(w, fileId) == Exists(w, "cloudinary", CloudinaryResolve(fileId))

CloudinaryValidateConfig(cfg) == cfg.cloudinaryConfigured

-----------------------------------------------------------------------------
(* getFileInfo, fileExists and generateSignedUrl of the providers *)

\* bytes of a stored artifact: the buffer as it was uploaded, or what sharp
\* made of it (a re-encoding or a 300x300 crop has another byte count)
ArtifactSize(a) ==
    CASE a.kind = "original" -> Files[a.file].size
      [] a.kind = "optimized" -> Files[a.file].size \div 2
      [] OTHER -> 300

\* the fields of the object getFileInfo returns that the three providers
\* share or that one of them alone has; a field the provider's object lacks
\* is <<>>
FileInfo(id, url, size, mimeType, format) ==
    [id |-> id, url |-> url, size |-> size, mimeType |-> mimeType, format |-> format]

\* [error, info, calls, resolved] of a getFileInfo call
InfoOutcome(error, info, calls, resolved) ==
    [error |-> error, info |-> info, calls |-> calls, resolved |-> resolved]

\* path.relative(from, to) for a relative one-segment `from`: the rest of a
\* path below it, ../<to> for a path beside it
PathRelative(from, to) ==
    LET rel(f, t) ==
            IF t = f THEN <<>>
            ELSE IF StartsWith(t, f \o <<"/">>) THEN SubSeq(t, Len(f) + 2, Len(t))
            ELSE <<".", ".", "/">> \o t
    IN  rel(PathNormalize(from), PathNormalize(to))

\* stats.size of a directory
DirectorySize == 4096

LocalInfoError == AppError("Failed to get file information", 500)

\* { filename, path, size, created, modified, url }: no MIME type.  The 404
\* thrown for a missing path is thrown inside the try and replaced by the 500;
\* env.fault "write" fails fs.stat
LocalGetFileInfo(w, fileId, env) ==
    LET size(hits) ==
            IF hits = {} THEN DirectorySize ELSE ArtifactSize(CHOOSE a \in hits : TRUE)
        info(filePath, n) ==
            FileInfo(filePath,
                     <<"/", "uploads", "/">> \o PathRelative(LocalUploadPath, filePath),
                     size({a \in w.store["local"] : a.id = n}), <<>>, <<>>)
        stat(filePath) ==
            IF ~PathExists(w, filePath)
            THEN InfoOutcome(LocalInfoError, <<>>, <<"pathExists">>, filePath)
            ELSE IF env.fault = "write"
            THEN InfoOutcome(LocalInfoError, <<>>, <<"pathExists", "stat">>, filePath)
            ELSE InfoOutcome(NoError, <<info(filePath, PathNormalize(filePath))>>,
                             <<"pathExists", "stat">>, filePath)
    IN  stat(LocalResolve(fileId))

S3InfoError == AppError("Failed to get file information from S3", 500)

\* ContentType of an object: the mimeType of the upload, image/jpeg for a
\* thumbnail
S3ContentType(a) ==
    IF a.kind = "thumbnail" THEN Mime("image", <<"jpeg">>) ELSE Files[a.file].mimetype

\* headObject rejects for a key that holds nothing, and when env.fault is
\* "write"; either way the catch answers with the 500
S3GetFileInfo(w, fileId, env) ==
    LET info(s3Key, a) ==
            FileInfo(s3Key, S3Url(s3Key), ArtifactSize(a), S3ContentType(a), <<>>)
        head(s3Key, hits) ==
            IF env.fault = "write" \/ hits = {}
            THEN InfoOutcome(S3InfoError, <<>>, <<"s3.headObject">>, s3Key)
            ELSE InfoOutcome(NoError, <<info(s3Key, CHOOSE a \in hits : TRUE)>>,
                             <<"s3.headObject">>, s3Key)
        find(s3Key) == head(s3Key, {a \in w.store["s3"] : a.id = s3Key})
    IN  find(S3Resolve(fileId))

CloudinaryInfoError == AppError("Failed to get file information from Cloudinary", 500)

\* { publicId, url, format, size, width, height, created, uploadedAt }: a
\* format, no MIME type
CloudinaryGetFileInfo(w, fileId, env) ==
    LET info(publicId, a, format) ==
            FileInfo(publicId, CloudinaryUrl(publicId, format), ArtifactSize(a), <<>>,
                     format)
        resource(publicId, hits) ==
            IF env.fault = "write" \/ hits = {}
            THEN InfoOutcome(CloudinaryInfoError, <<>>, <<"api.resource">>, publicId)
            ELSE InfoOutcome(NoError,
                             <<info(publicId, CHOOSE a \in hits : TRUE,
                                    getFileExtension(
                                        Files[(CHOOSE a \in hits : TRUE).file].originalname))>>,
                             <<"api.resource">>, publicId)
        find(publicId) == resource(publicId, {a \in w.store["cloudinary"] : a.id = publicId})
    IN  find(CloudinaryResolve(fileId))

\* fileExists of a provider under what the backend does during the call:
\* fs.pathExists answers false when the filesystem refuses, the other two
\* answer whether their getFileInfo returned
ProviderFileExists(p, w, fileId, env) ==
    CASE p = "local" -> env.fault # "write" /\ LocalFileExists(w, fileId)
      [] p = "s3" -> ~IsError(S3GetFileInfo(w, fileId, env).error)
      [] p = "cloudinary" -> ~IsError(CloudinaryGetFileInfo(w, fileId, env).error)

\* process.env.BASE_URL || 'http://localhost:8000'
BaseUrl == <<"http:", "/", "/", "localhost:8000">>

\* [url, resolved]: the direct url, nothing is signed
LocalGenerateSignedUrl(fileId) ==
    [url |-> IF StartsWith(fileId, <<"/", "uploads", "/">>) THEN BaseUrl \o fileId
             ELSE BaseUrl \o <<"/", "uploads", "/">> \o fileId,
     resolved |-> fileId]

\* s3.getSignedUrl(operation, { Bucket, Key, Expires })
S3GenerateSignedUrl(fileId) ==
    LET sign(s3Key) ==
            [url |-> S3Url(s3Key) \o <<"?", "Expires", "&", "Signature">>,
             resolved |-> s3Key]
    IN  sign(S3Resolve(fileId))

\* cloudinary.url(publicId, { sign_url: true, ... })
CloudinaryGenerateSignedUrl(fileId) ==
    LET sign(publicId) ==
            [url |-> <<"https:", "/", "/">> \o CloudinaryHost
                        \o <<"/", "cloud", "/", "image", "/", "upload", "/", "s--sig--", "/">>
                        \o publicId,
             resolved |-> publicId]
    IN  sign(CloudinaryResolve(fileId))

-----------------------------------------------------------------------------
(* The provider interface (BaseStorageService) *)

UploadFile(p, cfg, w, f, options, env) ==
    CASE p = "local" -> LocalUploadFile(cfg, w, f, options, env)
      [] p = "s3" -> S3UploadFile(cfg, w, f, options, env)
      [] p = "cloudinary" -> CloudinaryUploadFile(cfg, w, f, options, env)

DeleteFile(p, w, fileId, env) ==
    CASE p = "local" -> LocalDeleteFile(w, fileId, env)
      [] p = "s3" -> S3DeleteFile(w, fileId, env)
      [] p = "cloudinary" -> CloudinaryDeleteFile(w, fileId, env)

FileExists(p, w, fileId) ==
    CASE p = "local" -> LocalFileExists(w, fileId)
      [] p = "s3" -> S3FileExists(w, fileId)
      [] p = "cloudinary" -> CloudinaryFileExists(w, fileId)

GetFileInfo(p, w, fileId, env) ==
    CASE p = "local" -> LocalGetFileInfo(w, fileId, env)
      [] p = "s3" -> S3GetFileInfo(w, fileId, env)
      [] p = "cloudinary" -> CloudinaryGetFileInfo(w, fileId, env)

GenerateSignedUrl(p, fileId) ==
    CASE p = "local" -> LocalGenerateSignedUrl(fileId)
      [] p = "s3" -> S3GenerateSignedUrl(fileId)
      [] p = "cloudinary" -> CloudinaryGenerateSignedUrl(fileId)

ValidateConfig(p, cfg) ==
    CASE p = "local" -> LocalValidateConfig(cfg)
      [] p = "s3" -> S3ValidateConfig(cfg)
      [] p = "cloudinary" -> CloudinaryValidateConfig(cfg)

\* uploadMultipleFiles that gives up at the first file that fails (mutation of
\* ProviderUploadMultipleFiles)
RECURSIVE ProviderUploadMultipleFilesStopAtFailure(_, _, _, _, _, _)
ProviderUploadMultipleFilesStopAtFailure(p, cfg, w, files, options, envs) ==
    IF Len(files) = 0
    THEN [results |-> <<>>, w |-> w, calls |-> <<>>, written |-> <<>>, faults |-> <<>>]
    ELSE LET push(o, rest) ==
                 [results |-> <<o.result>> \o rest.results,
                  w |-> rest.w,
                  calls |-> o.calls \o rest.calls,
                  written |-> <<o.written>> \o rest.written,
                  faults |-> <<o.fault>> \o rest.faults]
             next(o) ==
                 push(o, IF IsError(o.error)
                         THEN [results |-> <<>>, w |-> o.w, calls |-> <<>>,
                               written |-> <<>>, faults |-> <<>>]
                         ELSE ProviderUploadMultipleFilesStopAtFailure(
                                  p, cfg, o.w, Tail(files), options, Tail(envs)))
         IN  next(UploadFile(p, cfg, w, Head(files), options, Head(envs)))

\* uploadMultipleFiles, the same in the three providers: files one after the
\* other, a thrown error becomes a failure record.
\* [results, w, calls, written, faults], written[i] being what file i wrote and
\* faults[i] the backend operation that failed during file i
RECURSIVE ProviderUploadMultipleFiles(_, _, _, _, _, _)
ProviderUploadMultipleFiles(p, cfg, w, files, options, envs) ==
    IF Len(files) = 0
    THEN [results |-> <<>>, w |-> w, calls |-> <<>>, written |-> <<>>, faults |-> <<>>]
    ELSE LET push(o, rest) ==
                 [results |-> <<o.result>> \o rest.results,
                  w |-> rest.w,
                  calls |-> o.calls \o rest.calls,
                  written |-> <<o.written>> \o rest.written,
                  faults |-> <<o.fault>> \o rest.faults]
             next(o) ==
                 push(o, ProviderUploadMultipleFiles(p, cfg, o.w, Tail(files), options,
                                                     Tail(envs)))
         IN  next(UploadFile(p, cfg, w, Head(files), options, Head(envs)))

-----------------------------------------------------------------------------
(* services/FileUploadService.js *)

\* the constructor without the fallback to local (mutation of
\* initializeStorageServices)
initializeStorageServicesNoFallback(cfg) == cfg.defaultStorage

\* constructor: this.defaultStorage after initializeStorageServices()
initializeStorageServices(cfg) ==
    IF cfg.defaultStorage \in Providers /\ ValidateConfig(cfg.defaultStorage, cfg)
    THEN cfg.defaultStorage
    ELSE "local"

\* [error, provider]: the provider selected, or the error thrown
getStorageService(cfg, dflt, storageType) ==
    LET service(type) ==
            IF type \notin Providers
            THEN [error |-> AppError("Storage service not found", 400), provider |-> "none"]
            ELSE IF ~ValidateConfig(type, cfg)
            THEN [error |-> AppError("Storage service is not properly configured", 500),
                  provider |-> "none"]
            ELSE [error |-> NoError, provider |-> type]
    IN  service(IF storageType = Undefined THEN dflt ELSE storageType)

\* the record kept of an orchestrator call: its arguments (options is <<>>
\* until a provider is handed them), the error it threw, the provider it
\* selected, what it returned, and what happened in the backend: the
\* identifiers written and the operation that failed per file, the backend
\* operations invoked, the native identifier a delete resolved, and what the
\* clock, uuidv4 and the backends did while a provider worked on it
Call(op, storageType, files, fileId, options, error, provider, results, written, faults, calls, resolved, envs) ==
    [op |-> op, storageType |-> storageType, files |-> files, fileId |-> fileId,
     options |-> options, threw |-> IsError(error), error |-> error,
     provider |-> provider, results |-> results, written |-> written,
     faults |-> faults, calls |-> calls, resolved |-> resolved, envs |-> envs]

NoCall ==
    Call("none", Undefined, <<>>, <<>>, <<>>, NoError, "none", <<>>, <<>>, <<>>, <<>>, <<>>,
         <<>>)

\* options.storageType defaults to this.defaultStorage
uploadSingleFile(cfg, dflt, w, f, storageType, options, env) ==
    LET thrown(e) ==
            [w |-> w,
             call |-> Call("uploadSingle", storageType, <<f>>, <<>>, <<>>, e,
                           "none", <<>>, <<>>, <<>>, <<>>, <<>>, <<>>)]
        done(provider, o) ==
            [w |-> o.w,
             call |-> Call("uploadSingle", storageType, <<f>>, <<>>, <<options>>,
                           o.error, provider,
                           IF IsError(o.error) THEN <<>> ELSE <<o.result>>,
                           <<o.written>>, <<o.fault>>, o.calls, <<>>, <<env>>)]
        upload(v, sel) ==
            IF IsError(v) THEN thrown(v)
            ELSE IF IsError(sel.error) THEN thrown(sel.error)
            ELSE done(sel.provider, UploadFile(sel.provider, cfg, w, f, options, env))
    IN  upload(validateUploadType("single", "file"),
               getStorageService(cfg, dflt, storageType))

\* uploadMultipleFiles that selects the provider before it counts the files
\* (mutation of uploadMultipleFiles)
uploadMultipleFilesSelectsFirst(cfg, dflt, w, files, storageType, options, envs) ==
    LET thrown(e) ==
            [w |-> w,
             call |-> Call("uploadMultiple", storageType, files, <<>>, <<>>, e, "none",
                           <<>>, <<>>, <<>>, <<>>, <<>>, <<>>)]
        done(provider, o) ==
            [w |-> o.w,
             call |-> Call("uploadMultiple", storageType, files, <<>>, <<options>>,
                           NoError, provider, o.results, o.written, o.faults,
                           o.calls, <<>>, envs)]
        upload(v, sel) ==
            IF IsError(v) THEN thrown(v)
            ELSE IF IsError(sel.error) THEN thrown(sel.error)
            ELSE IF Len(files) > MultipleMaxCount
                 THEN thrown(AppError("Maximum files allowed", 400))
            ELSE done(sel.provider,
                      ProviderUploadMultipleFiles(sel.provider, cfg, w, files, options,
                                                  envs))
    IN  upload(validateUploadType("multiple", "files"),
               getStorageService(cfg, dflt, storageType))

uploadMultipleFiles(cfg, dflt, w, files, storageType, options, envs) ==
    LET thrown(e) ==
            [w |-> w,
             call |-> Call("uploadMultiple", storageType, files, <<>>, <<>>, e, "none",
                           <<>>, <<>>, <<>>, <<>>, <<>>, <<>>)]
        done(provider, o) ==
            [w |-> o.w,
             call |-> Call("uploadMultiple", storageType, files, <<>>, <<options>>,
                           NoError, provider, o.results, o.written, o.faults,
                           o.calls, <<>>, envs)]
        upload(v, sel) ==
            IF IsError(v) THEN thrown(v)
            ELSE IF Len(files) > MultipleMaxCount
                 THEN thrown(AppError("Maximum files allowed", 400))
            ELSE IF IsError(sel.error) THEN thrown(sel.error)
            ELSE done(sel.provider,
                      ProviderUploadMultipleFiles(sel.provider, cfg, w, files, options,
                                                  envs))
    IN  upload(validateUploadType("multiple", "files"),
               getStorageService(cfg, dflt, storageType))

\* one field of uploadNamedFiles: its files one after the other
\* [results, w, calls, written]
RECURSIVE UploadFieldFiles(_, _, _, _, _, _)
UploadFieldFiles(p, cfg, w, fieldName, fieldFiles, env) ==
    IF Len(fieldFiles) = 0
    THEN [results |-> <<>>, w |-> w, calls |-> <<>>, written |-> <<>>]
    ELSE LET f == Head(fieldFiles)
             fileType == getFileTypeCategory(Files[f].mimetype)
             allowed == NamedFields[fieldName].allowedTypes
             refused ==
                 Outcome(NoError,
                         FailureRecord(Files[f].originalname, "File type not allowed for field"),
                         w, <<>>, {}, "none")
             push(o, rest) ==
                 [results |-> <<o.result>> \o rest.results,
                  w |-> rest.w,
                  calls |-> o.calls \o rest.calls,
                  written |-> <<o.written>> \o rest.written]
             next(o) ==
                 push(o, UploadFieldFiles(p, cfg, o.w, fieldName, Tail(fieldFiles), env))
         IN  next(IF allowed # {} /\ fileType \notin allowed THEN refused
                  ELSE UploadFile(p, cfg, w, f,
                                  [uploadType |-> <<fieldName>>,
                                   generateThumbnail |-> TRUE], env))

\* the loop over config.fields, from the i-th field on.
\* [error, w, results, calls]; results maps the fields done to their lists
RECURSIVE UploadNamedFields(_, _, _, _, _, _, _)
UploadNamedFields(p, cfg, w, files, env, i, acc) ==
    IF i > Len(NamedFieldOrder)
    THEN [error |-> NoError, w |-> w, results |-> acc.results, calls |-> acc.calls]
    ELSE LET fieldName == NamedFieldOrder[i]
         IN  IF fieldName \notin DOMAIN files
             THEN UploadNamedFields(p, cfg, w, files, env, i + 1, acc)
             ELSE IF Len(files[fieldName]) > NamedFields[fieldName].maxCount
             THEN [error |-> AppError("Maximum files allowed for field", 400),
                   w |-> w, results |-> acc.results, calls |-> acc.calls]
             ELSE LET next(o) ==
                          UploadNamedFields(p, cfg, o.w, files, env, i + 1,
                              [results |-> acc.results @@ (fieldName :> o.results),
                               calls |-> acc.calls \o o.calls])
                  IN  next(UploadFieldFiles(p, cfg, w, fieldName, files[fieldName], env))

\* validateUploadType('named') is called without a field name
uploadNamedFiles(cfg, dflt, w, files, storageType, env) ==
    LET call(e, provider, results, calls) ==
            Call("uploadNamed", storageType, files, <<>>, <<>>, e, provider,
                 results, <<>>, <<>>, calls, <<>>, <<>>)
        done(provider, o) ==
            [w |-> o.w,
             call |-> call(o.error, provider,
                           IF IsError(o.error) THEN <<>> ELSE o.results, o.calls)]
        upload(v, sel) ==
            IF IsError(v) THEN [w |-> w, call |-> call(v, "none", <<>>, <<>>)]
            ELSE IF IsError(sel.error)
                 THEN [w |-> w, call |-> call(sel.error, "none", <<>>, <<>>)]
            ELSE done(sel.provider,
                      UploadNamedFields(sel.provider, cfg, w, files, env, 1,
                                        [results |-> <<>>, calls |-> <<>>]))
    IN  upload(validateUploadType("named", Undefined),
               getStorageService(cfg, dflt, storageType))

\* the provider deleteFile, getFileInfo and generateSignedUrl pick
determinedStorageType(fileId, storageType) ==
    IF storageType # Undefined THEN storageType
    ELSE IF Includes(fileId, <<"cloudinary.com">>) THEN "cloudinary"
    ELSE IF Includes(fileId, <<"amazonaws.com">>) THEN "s3"
    ELSE "local"

deleteFile(cfg, dflt, w, fileId, storageType, env) ==
    LET done(provider, o) ==
            [w |-> o.w,
             call |-> Call("deleteFile", storageType, <<>>, fileId, <<>>, o.error,
                           provider, <<>>, <<>>, <<>>, o.calls, o.resolved, <<env>>)]
        delete(sel) ==
            IF IsError(sel.error)
            THEN [w |-> w,
                  call |-> Call("deleteFile", storageType, <<>>, fileId, <<>>, sel.error,
                                "none", <<>>, <<>>, <<>>, <<>>, <<>>, <<>>)]
            ELSE done(sel.provider, DeleteFile(sel.provider, w, fileId, env))
    IN  delete(getStorageService(cfg, dflt, determinedStorageType(fileId, storageType)))

\* the provider chosen with the two host names looked for in the other order
\* (mutation of getFileInfoStorageType)
getFileInfoStorageTypeHostsSwapped(fileId, storageType) ==
    IF storageType # Undefined THEN storageType
    ELSE IF Includes(fileId, <<"amazonaws.com">>) THEN "s3"
    ELSE IF Includes(fileId, <<"cloudinary.com">>) THEN "cloudinary"
    ELSE "local"

\* the provider getFileInfo picks
getFileInfoStorageType(fileId, storageType) ==
    IF storageType # Undefined THEN storageType
    ELSE IF Includes(fileId, <<"cloudinary.com">>) THEN "cloudinary"
    ELSE IF Includes(fileId, <<"amazonaws.com">>) THEN "s3"
    ELSE "local"

\* the provider's error is rethrown as it is
getFileInfo(cfg, dflt, w, fileId, storageType, env) ==
    LET done(provider, o) ==
            [w |-> w,
             call |-> Call("getFileInfo", storageType, <<>>, fileId, <<>>, o.error,
                           provider, o.info, <<>>, <<>>, o.calls, o.resolved, <<env>>)]
        info(sel) ==
            IF IsError(sel.error)
            THEN [w |-> w,
                  call |-> Call("getFileInfo", storageType, <<>>, fileId, <<>>, sel.error,
                                "none", <<>>, <<>>, <<>>, <<>>, <<>>, <<>>)]
            ELSE done(sel.provider, GetFileInfo(sel.provider, w, fileId, env))
    IN  info(getStorageService(cfg, dflt, getFileInfoStorageType(fileId, storageType)))

\* the provider generateSignedUrl picks
generateSignedUrlStorageType(fileId, storageType) ==
    IF storageType # Undefined THEN storageType
    ELSE IF Includes(fileId, <<"cloudinary.com">>) THEN "cloudinary"
    ELSE IF Includes(fileId, <<"amazonaws.com">>) THEN "s3"
    ELSE "local"

generateSignedUrl(cfg, dflt, w, fileId, storageType) ==
    LET done(provider, o) ==
            [w |-> w,
             call |-> Call("generateSignedUrl", storageType, <<>>, fileId, <<>>, NoError,
                           provider, <<o.url>>, <<>>, <<>>, <<>>, o.resolved, <<>>)]
        sign(sel) ==
            IF IsError(sel.error)
            THEN [w |-> w,
                  call |-> Call("generateSignedUrl", storageType, <<>>, fileId, <<>>,
                                sel.error, "none", <<>>, <<>>, <<>>, <<>>, <<>>, <<>>)]
            ELSE done(sel.provider, GenerateSignedUrl(sel.provider, fileId))
    IN  sign(getStorageService(cfg, dflt,
                               generateSignedUrlStorageType(fileId, storageType)))

\* fileExists that lets the error of getStorageService through (mutation of
\* fileExists)
fileExistsWithoutCatch(cfg, dflt, w, fileId, storageType, env) ==
    LET answer(error, provider, results) ==
            [w |-> w,
             call |-> Call("fileExists", storageType, <<>>, fileId, <<>>, error,
                           provider, results, <<>>, <<>>, <<>>, <<>>, <<env>>)]
        exists(sel) ==
            IF IsError(sel.error) THEN answer(sel.error, "none", <<>>)
            ELSE answer(NoError, sel.provider,
                        <<ProviderFileExists(sel.provider, w, fileId, env)>>)
    IN  exists(getStorageService(cfg, dflt, storageType))

\* storageType = null selects the default provider, whatever fileId looks
\* like; any error is caught and answered with false
fileExists(cfg, dflt, w, fileId, storageType, env) ==
    LET answer(error, provider, results) ==
            [w |-> w,
             call |-> Call("fileExists", storageType, <<>>, fileId, <<>>, error,
                           provider, results, <<>>, <<>>, <<>>, <<>>, <<env>>)]
        exists(sel) ==
            IF IsError(sel.error) THEN answer(NoError, "none", <<FALSE>>)
            ELSE answer(NoError, sel.provider,
                        <<ProviderFileExists(sel.provider, w, fileId, env)>>)
    IN  exists(getStorageService(cfg, dflt, storageType))

-----------------------------------------------------------------------------
(* The system *)

World == [store |-> store, dirs |-> dirs]

StoredCount ==
    Cardinality(store["local"]) + Cardinality(store["s3"])
        + Cardinality(store["cloudinary"])

RequestedStorageTypes == StorageNames \cup {Undefined}

\* batches of uploadMultiple: up to MaxBatch files, and one batch above maxCount
BatchFiles == {"img", "big"}
Batches ==
    UNION {[1..n -> BatchFiles] : n \in 1..MaxBatch}
        \cup {[i \in 1..(MultipleMaxCount + 1) |-> "img"]}

\* what happens during a batch: a random string per file and at most one
\* backend fault in the request
BatchEnvs(n) ==
    {[i \in 1..n |-> [timestamp |-> t, randomString |-> rs[i],
                      fault |-> IF i = k THEN fault ELSE "none"]] :
        t \in Times, rs \in [1..n -> RandomStrings],
        k \in 0..n, fault \in Faults \ {"none"}}

\* the files object multer hands to uploadNamedFiles
NamedInputs ==
    {("profile" :> <<"img">>),
     ("profile" :> <<"img", "img">>),
     ("profile" :> <<"pdf">>) @@ ("resume" :> <<"pdf">>),
     ("profile" :> <<"img", "img">>) @@ ("resume" :> <<"pdf">>),
     ("resume" :> <<"pdf">>) @@ ("certificate" :> <<"img", "exe">>)}

\* identifiers a caller can ask to delete: what the last call returned or was
\* given, what the backends hold, and a url that was never issued
GhostUrl == LocalUrl(<<"general">>, <<"ghost", ".", "png">>)
\* a url that would make both host-name patterns match
MixedUrl == S3Url(<<"backup", "/">> \o CloudinaryHost)
KnownIds ==
    {last.results[i].url :
        i \in {j \in DOMAIN last.results : last.op \in {"uploadSingle", "uploadMultiple"}}}
        \cup {a.id : a \in store["local"] \cup store["s3"] \cup store["cloudinary"]}
        \cup {last.fileId, GhostUrl, MixedUrl}

DeleteEnvs == {e \in Envs : e.timestamp = 1 /\ e.randomString = "r1"
                             /\ e.fault \in {"none", "write", "thumbwrite"}}

\* uploadFile calls that run at the same time: an async function runs up to
\* its next await, then another call may run
Requests == 1..MaxConcurrent

\* the first eight characters of a version 4 uuid are 32 random bits
ConcurrentRandomStrings == {"r1", "r2"}

\* a call that has not started; one in flight carries the provider it runs in,
\* its file, the unique filename it generated, the path or key it writes to,
\* and, once it has written, whether something was stored there already
Idle ==
    [pc |-> "idle", provider |-> "none", file |-> "none", filename |-> <<>>,
     id |-> <<>>, overwrote |-> FALSE]

\* no function called yet
NoProbe == [fn |-> "none", args |-> <<>>, threw |-> FALSE, error |-> NoError, out |-> <<>>]

\* the entity has no profile image, and no request has been served; with an
\* image, the document holds its url, and the model remembers the provider
\* that issued it and the artifact it names
NoProfile ==
    [profileImage |-> <<>>, provider |-> "none", id |-> <<>>, handler |-> "none",
     threw |-> FALSE]

\* student documents saved at the same time
Savers == 1..MaxSaves

\* a new Student document before save(): studentId is undefined
NewStudent ==
    [pc |-> "new", studentId |-> <<>>, generated |-> FALSE, count |-> 0,
     increments |-> 0]

\* no counter document for 'student', the seed script not run, and no student
\* document saved yet
NoStudents ==
    [counter |-> 0, exists |-> FALSE, seed |-> "idle",
     saves |-> [i \in Savers |-> NewStudent]]

Init ==
    /\ config \in Configs
    /\ defaultStorage = initializeStorageServices(config)
    /\ store = [p \in Providers |-> {}]
    /\ dirs = {}
    /\ last = NoCall
    /\ uploads = [i \in Requests |-> Idle]
    /\ probe = NoProbe
    /\ profile = NoProfile
    /\ students = NoStudents

UploadSingle ==
    /\ StoredCount < MaxStored
    /\ \E f \in FileIds, storageType \in RequestedStorageTypes,
          options \in UploadOptions, env \in Envs :
            \E r \in {uploadSingleFile(config, defaultStorage, World, f, storageType,
                                      options, env)} :
                /\ store' = r.w.store
                /\ dirs' = r.w.dirs
                /\ last' = r.call
    /\ UNCHANGED <<config, defaultStorage, uploads, probe, profile, students>>

UploadMultiple ==
    /\ StoredCount < MaxStored
    /\ \E files \in Batches, storageType \in RequestedStorageTypes,
          options \in {o \in UploadOptions : o.generateThumbnail} :
        \E envs \in BatchEnvs(IF Len(files) > MaxBatch THEN 0 ELSE Len(files)) :
            \E r \in {uploadMultipleFiles(config, defaultStorage, World, files,
                                         storageType, options, envs)} :
                /\ store' = r.w.store
                /\ dirs' = r.w.dirs
                /\ last' = r.call
    /\ UNCHANGED <<config, defaultStorage, uploads, probe, profile, students>>

UploadNamed ==
    /\ StoredCount < MaxStored
    /\ \E files \in NamedInputs, storageType \in RequestedStorageTypes,
          env \in {e \in DeleteEnvs : e.fault = "none"} :
            \E r \in {uploadNamedFiles(config, defaultStorage, World, files, storageType, env)} :
                /\ store' = r.w.store
                /\ dirs' = r.w.dirs
                /\ last' = r.call
    /\ UNCHANGED <<config, defaultStorage, uploads, probe, profile, students>>

Delete ==
    /\ \E fileId \in KnownIds \ {<<>>}, storageType \in RequestedStorageTypes,
          env \in DeleteEnvs :
            \E r \in {deleteFile(config, defaultStorage, World, fileId, storageType, env)} :
                /\ store' = r.w.store
                /\ dirs' = r.w.dirs
                /\ last' = r.call
    /\ UNCHANGED <<config, defaultStorage, uploads, probe, profile, students>>

\* what the backend does during a read: it answers, or the operation rejects
ReadEnvs == {e \in DeleteEnvs : e.fault \in {"none", "write"}}

Info ==
    /\ \E fileId \in KnownIds \ {<<>>}, storageType \in RequestedStorageTypes,
          env \in ReadEnvs :
            \E r \in {getFileInfo(config, defaultStorage, World, fileId, storageType, env)} :
                last' = r.call
    /\ UNCHANGED <<config, defaultStorage, store, dirs, uploads, probe, profile, students>>

SignedUrl ==
    /\ \E fileId \in KnownIds \ {<<>>}, storageType \in RequestedStorageTypes :
            \E r \in {generateSignedUrl(config, defaultStorage, World, fileId, storageType)} :
                last' = r.call
    /\ UNCHANGED <<config, defaultStorage, store, dirs, uploads, probe, profile, students>>

FileExistence ==
    /\ \E fileId \in KnownIds \ {<<>>}, storageType \in RequestedStorageTypes,
          env \in ReadEnvs :
            \E r \in {fileExists(config, defaultStorage, World, fileId, storageType, env)} :
                last' = r.call
    /\ UNCHANGED <<config, defaultStorage, store, dirs, uploads, probe, profile, students>>

Next ==
    \/ UploadSingle \/ UploadMultiple \/ UploadNamed \/ Delete
    \/ Info \/ SignedUrl \/ FileExistence

Spec == Init /\ [][Next]_vars

-----------------------------------------------------------------------------
(* Overlapping uploadFile calls on the local and the S3 provider *)

\* uploadFile up to its first await: the validations, the unique filename
\* from Date.now() and uuidv4(), the path or key.  The local provider awaits
\* ensureDirectoryExists next, S3 its upload
BeginUpload ==
    /\ \E i \in Requests, p \in {"local", "s3"}, f \in {"img", "pdf"},
          t \in Times, rs \in ConcurrentRandomStrings :
        /\ uploads[i].pc = "idle"
        /\ ~IsError(getStorageService(config, defaultStorage, p).error)
        /\ ~IsError(validateFileSize(Files[f].size, p))
        /\ p = "local" => ~IsError(validateFileType(Files[f].mimetype, p))
        /\ ~IsError(validateFilename(Files[f].originalname))
        /\ p = "s3" => getFileExtension(Files[f].originalname) \in S3AllowedFormats
        /\ \E name \in {generateUniqueFilename(Files[f].originalname,
                                                getFileExtension(Files[f].originalname),
                                                t, rs)} :
              uploads' = [uploads EXCEPT ![i] =
                  [pc |-> IF p = "local" THEN "named" ELSE "ready",
                   provider |-> p, file |-> f, filename |-> name,
                   id |-> IF p = "local"
                          THEN PathJoin(getUploadPath(<<"general">>, "local"), name)
                          ELSE S3Key(<<"general">>, name),
                   overwrote |-> FALSE]]
    /\ UNCHANGED <<config, defaultStorage, store, dirs, last, probe, profile, students>>

\* await FileUploadUtils.ensureDirectoryExists(uploadPath)
EnsureDirectory ==
    /\ \E i \in Requests :
        /\ uploads[i].pc = "named"
        /\ dirs' = EnsureDir(World, getUploadPath(<<"general">>, "local")).dirs
        /\ uploads' = [uploads EXCEPT ![i].pc = "ready"]
    /\ UNCHANGED <<config, defaultStorage, store, last, probe, profile, students>>

\* await fs.writeFile(filePath, processedBuffer) / s3.upload(uploadParams):
\* what is stored under the path or key is replaced
WriteArtifact ==
    /\ \E i \in Requests :
        /\ uploads[i].pc = "ready"
        /\ store' = Put(World, uploads[i].provider, uploads[i].id, uploads[i].file,
                        IF IsImage(Files[uploads[i].file].mimetype)
                        THEN optimizeImage(config, [fault |-> "none"])
                        ELSE "original").store
        /\ uploads' = [uploads EXCEPT
                            ![i].pc = "done",
                            ![i].overwrote =
                                Exists(World, uploads[i].provider, uploads[i].id)]
    /\ UNCHANGED <<config, defaultStorage, dirs, last, probe, profile, students>>

NextConcurrent == BeginUpload \/ EnsureDirectory \/ WriteArtifact

SpecConcurrent == Init /\ [][NextConcurrent]_vars

-----------------------------------------------------------------------------
(* Misleading names, declared types and identifiers, and a batch of two     *)
(* files with different names                                               *)

\* a file of the application itself, in the working directory of the
\* process, beside the upload directory
ApplicationFile == <<"package", ".", "json">>

\* an identifier in the shape of a local url that climbs out of the upload
\* directory
TraversalUrl == <<"/", "uploads", "/", ".", ".", "/">> \o ApplicationFile

\* the process starts in a directory that holds the application
InitMisleading ==
    /\ config \in Configs
    /\ defaultStorage = initializeStorageServices(config)
    /\ store = [p \in Providers |->
                    IF p = "local"
                    THEN {[id |-> ApplicationFile, file |-> "app", kind |-> "original"]}
                    ELSE {}]
    /\ dirs = {}
    /\ last = NoCall
    /\ uploads = [i \in Requests |-> Idle]
    /\ probe = NoProbe
    /\ profile = NoProfile
    /\ students = NoStudents

\* artifacts the backends hold, the application's own file aside
UploadedCount ==
    Cardinality({a \in store["local"] : a.id # ApplicationFile})
        + Cardinality(store["s3"]) + Cardinality(store["cloudinary"])

\* uploadSingle of a file whose name or declared type misleads
UploadMisleading ==
    /\ UploadedCount < MaxStored
    /\ \E f \in MisleadingFileIds, storageType \in RequestedStorageTypes,
          options \in UploadOptions, env \in Envs :
            \E r \in {uploadSingleFile(config, defaultStorage, World, f, storageType,
                                      options, env)} :
                /\ store' = r.w.store
                /\ dirs' = r.w.dirs
                /\ last' = r.call
    /\ UNCHANGED <<config, defaultStorage, uploads, probe, profile, students>>

\* uploadMultiple of two files with different names, a document and then a
\* picture
MixedBatch == <<"pdf", "img">>

UploadMixedBatch ==
    /\ UploadedCount < MaxStored
    /\ \E storageType \in RequestedStorageTypes,
          options \in {o \in UploadOptions : o.generateThumbnail} :
        \E envs \in BatchEnvs(Len(MixedBatch)) :
            \E r \in {uploadMultipleFiles(config, defaultStorage, World, MixedBatch,
                                         storageType, options, envs)} :
                /\ store' = r.w.store
                /\ dirs' = r.w.dirs
                /\ last' = r.call
    /\ UNCHANGED <<config, defaultStorage, uploads, probe, profile, students>>

\* the url the last upload returned, or the one the last call was given
UploadedUrls ==
    {last.results[i].url : i \in {j \in DOMAIN last.results : last.op = "uploadSingle"}}
        \cup ({last.fileId} \ {<<>>, TraversalUrl, ApplicationFile})

\* deleteFile of an uploaded url, or of an identifier that names no upload
DeleteMisleading ==
    /\ \E fileId \in UploadedUrls \cup {TraversalUrl, ApplicationFile},
          storageType \in RequestedStorageTypes, env \in DeleteEnvs :
            \E r \in {deleteFile(config, defaultStorage, World, fileId, storageType, env)} :
                /\ store' = r.w.store
                /\ dirs' = r.w.dirs
                /\ last' = r.call
    /\ UNCHANGED <<config, defaultStorage, uploads, probe, profile, students>>

\* getFileInfo of an uploaded url
InfoMisleading ==
    /\ \E fileId \in UploadedUrls, storageType \in RequestedStorageTypes,
          env \in ReadEnvs :
            \E r \in {getFileInfo(config, defaultStorage, World, fileId, storageType, env)} :
                last' = r.call
    /\ UNCHANGED <<config, defaultStorage, store, dirs, uploads, probe, profile, students>>

NextMisleading ==
    UploadMisleading \/ UploadMixedBatch \/ DeleteMisleading \/ InfoMisleading

SpecMisleading == InitMisleading /\ [][NextMisleading]_vars

-----------------------------------------------------------------------------
(* Functions that touch no backend: the classifier, the multipart file      *)
(* filter and the configuration query                                       *)

\* the record kept of such a call: its arguments, the error it threw or handed
\* to its callback, and what it returned
Probe(fn, args, error, out) ==
    [fn |-> fn, args |-> args, threw |-> IsError(error), error |-> error, out |-> out]

\* the PDF and office-document MIME types of local.allowedMimeTypes:
\* pdf, doc, docx, xls, xlsx
OfficeDocumentMimeTypes == {
    Mime("application", <<"pdf">>),
    Mime("application", <<"ms", "word">>),
    Mime("application", <<"vnd.openxmlformats-officedocument.", "word", "processingml.document">>),
    Mime("application", <<"vnd.ms-", "excel">>),
    Mime("application", <<"vnd.openxmlformats-officedocument.", "spreadsheetml.sheet">>) }

\* MIME strings a multipart part can declare
MimeInputs ==
    LocalAllowedMimeTypes \cup {
        Mime("video", <<"mp4">>), Mime("audio", <<"mpeg">>),
        Mime("application", <<"vnd.ms-", "powerpoint">>),
        Mime("application", <<"x-", "tar">>),
        Mime("application", <<"x-msdownload">>),
        Mime("application", <<"octet-stream">>) }

\* middlewares/fileUpload.js fileFilter: [accepted, error] as handed to cb.
\* fileUploadConfig[storageType] has allowedMimeTypes for no key but "local";
\* an unknown name falls back to fileUploadConfig.local
fileFilter(cfg, storageType, file) ==
    LET cb(error) == [accepted |-> ~IsError(error), error |-> error]
        filter(type) ==
            IF type \in {"cloudinary", "s3"} THEN cb(TypeError)
            ELSE IF file.mimetype \notin LocalAllowedMimeTypes
            THEN cb(AppError("File type is not allowed", 400))
            ELSE cb(validateFilename(file.originalname))
    IN  filter(IF storageType = Undefined THEN cfg.defaultStorage ELSE storageType)

\* this.config of the providers; a variable the environment does not set is
\* undefined
LocalGetConfig(cfg) ==
    [uploadPath |-> LocalUploadPath, maxFileSize |-> LocalMaxFileSize,
     allowedMimeTypes |-> LocalAllowedMimeTypes]

S3GetConfig(cfg) ==
    [accessKeyId |-> IF cfg.s3Configured THEN "AWS_ACCESS_KEY_ID" ELSE Undefined,
     secretAccessKey |-> IF cfg.s3Configured THEN "AWS_SECRET_ACCESS_KEY" ELSE Undefined,
     region |-> "us-east-1",
     bucketName |-> IF cfg.s3Configured THEN "bucket" ELSE Undefined,
     folder |-> S3Folder, maxFileSize |-> S3MaxFileSize,
     allowedFormats |-> S3AllowedFormats, acl |-> "public-read"]

CloudinaryGetConfig(cfg) ==
    [cloudName |-> IF cfg.cloudinaryConfigured THEN "CLOUDINARY_CLOUD_NAME" ELSE Undefined,
     apiKey |-> IF cfg.cloudinaryConfigured THEN "CLOUDINARY_API_KEY" ELSE Undefined,
     apiSecret |-> IF cfg.cloudinaryConfigured THEN "CLOUDINARY_API_SECRET" ELSE Undefined,
     folder |-> CloudinaryFolder, maxFileSize |-> CloudinaryMaxFileSize,
     allowedFormats |-> CloudinaryAllowedFormats]

GetConfig(p, cfg) ==
    CASE p = "local" -> LocalGetConfig(cfg)
      [] p = "s3" -> S3GetConfig(cfg)
      [] p = "cloudinary" -> CloudinaryGetConfig(cfg)

\* [error, provider, config]: the configuration returned, or the error thrown
getStorageConfig(cfg, dflt, storageType) ==
    LET answer(type) ==
            IF type \notin Providers
            THEN [error |-> AppError("Storage service not found", 400),
                  provider |-> "none", config |-> <<>>]
            ELSE [error |-> NoError, provider |-> type, config |-> GetConfig(type, cfg)]
    IN  answer(IF storageType = Undefined THEN dflt ELSE storageType)

getAvailableStorageServices(cfg) == {p \in Providers : ValidateConfig(p, cfg)}

\* FileUploadController.getUploadConfig: the data of the response, or the
\* error handed to next()
getUploadConfig(cfg, dflt, storageType) ==
    LET respond(c) ==
            Probe("getUploadConfig", <<storageType>>, c.error,
                  [provider |-> c.provider, config |-> c.config,
                   availableServices |-> getAvailableStorageServices(cfg),
                   defaultStorage |-> dflt])
    IN  respond(getStorageConfig(cfg, dflt, storageType))

ClassifyFileType ==
    /\ \E mimeType \in MimeInputs :
            probe' = Probe("getFileTypeCategory", <<mimeType>>, NoError,
                           getFileTypeCategory(mimeType))
    /\ UNCHANGED <<config, defaultStorage, store, dirs, last, uploads, profile, students>>

\* multer calls fileFilter once for each file part of the request
FilterFile ==
    /\ \E f \in DOMAIN Files, storageType \in RequestedStorageTypes :
            \E r \in {fileFilter(config, storageType, Files[f])} :
                probe' = Probe("fileFilter", <<storageType, f>>, r.error, r.accepted)
    /\ UNCHANGED <<config, defaultStorage, store, dirs, last, uploads, profile, students>>

QueryUploadConfig ==
    /\ \E storageType \in RequestedStorageTypes :
            probe' = getUploadConfig(config, defaultStorage, storageType)
    /\ UNCHANGED <<config, defaultStorage, store, dirs, last, uploads, profile, students>>

NextUtilities == ClassifyFileType \/ FilterFile \/ QueryUploadConfig

SpecUtilities == Init /\ [][NextUtilities]_vars

-----------------------------------------------------------------------------
(* Profile image handlers of the trainer, student and admin controllers *)

\* the options the three handlers hand to uploadSingleFile
ProfileOptions == [uploadType |-> <<"profile">>, generateThumbnail |-> TRUE]

\* req.body.storageType || 'cloudinary'
ProfileStorageType(storageType) ==
    IF storageType = Undefined THEN "cloudinary" ELSE storageType

\* what a handler leaves: the backend, the entity's document, the upload or
\* delete call it made last, and whether it handed an error to next()
Handled(handler, w, entity, call, threw) ==
    [w |-> w, call |-> call,
     entity |-> [entity EXCEPT !.handler = handler, !.threw = threw]]

\* findByIdAndUpdate(id, { profileImage: uploadResult.url })
WithProfileImage(entity, call) ==
    [entity EXCEPT !.profileImage = call.results[1].url,
                   !.provider = call.provider,
                   !.id = call.results[1].id]

\* uploadProfileImage: upload, then store the url
uploadProfileImage(cfg, dflt, w, entity, f, storageType, env) ==
    LET update(u) ==
            IF u.call.threw
            THEN Handled("uploadProfileImage", u.w, entity, u.call, TRUE)
            ELSE Handled("uploadProfileImage", u.w, WithProfileImage(entity, u.call),
                         u.call, FALSE)
    IN  update(uploadSingleFile(cfg, dflt, w, f, ProfileStorageType(storageType),
                                ProfileOptions, env))

\* updateProfileImage: delete the old image (an error of the delete is logged
\* and dropped), upload the new one, then store its url
updateProfileImage(cfg, dflt, w, entity, f, storageType, envDelete, envUpload) ==
    LET update(u) ==
            IF u.call.threw
            THEN Handled("updateProfileImage", u.w, entity, u.call, TRUE)
            ELSE Handled("updateProfileImage", u.w, WithProfileImage(entity, u.call),
                         u.call, FALSE)
        upload(w1) ==
            update(uploadSingleFile(cfg, dflt, w1, f, ProfileStorageType(storageType),
                                    ProfileOptions, envUpload))
    IN  IF entity.profileImage = <<>> THEN upload(w)
        ELSE upload(deleteFile(cfg, dflt, w, entity.profileImage, Undefined, envDelete).w)

\* deleteProfileImage: delete the image (an error is logged and dropped), then
\* store null
deleteProfileImage(cfg, dflt, w, entity, env) ==
    LET clear(d) ==
            Handled("deleteProfileImage", d.w,
                    [entity EXCEPT !.profileImage = <<>>, !.provider = "none", !.id = <<>>],
                    d.call, FALSE)
    IN  clear(deleteFile(cfg, dflt, w, entity.profileImage, Undefined, env))

\* req.file of a profile image request: a picture, or one below the minimum size
ProfileFiles == {"img", "small"}

\* what the backend does during a handler's upload
ProfileEnvs == {e \in DeleteEnvs : e.fault \in {"none", "write"}}

UploadProfileImage ==
    /\ StoredCount < MaxStored
    /\ \E f \in ProfileFiles, storageType \in RequestedStorageTypes, env \in ProfileEnvs :
            \E r \in {uploadProfileImage(config, defaultStorage, World, profile, f,
                                        storageType, env)} :
                /\ store' = r.w.store
                /\ dirs' = r.w.dirs
                /\ last' = r.call
                /\ profile' = r.entity
    /\ UNCHANGED <<config, defaultStorage, uploads, probe, students>>

UpdateProfileImage ==
    /\ StoredCount <= MaxStored
    /\ \E f \in ProfileFiles, storageType \in RequestedStorageTypes,
          envDelete \in ProfileEnvs, envUpload \in ProfileEnvs :
            \E r \in {updateProfileImage(config, defaultStorage, World, profile, f,
                                        storageType, envDelete, envUpload)} :
                /\ store' = r.w.store
                /\ dirs' = r.w.dirs
                /\ last' = r.call
                /\ profile' = r.entity
    /\ UNCHANGED <<config, defaultStorage, uploads, probe, students>>

\* the handler answers 400 when the entity has no profile image
DeleteProfileImage ==
    /\ profile.profileImage # <<>>
    /\ \E env \in ProfileEnvs :
            \E r \in {deleteProfileImage(config, defaultStorage, World, profile, env)} :
                /\ store' = r.w.store
                /\ dirs' = r.w.dirs
                /\ last' = r.call
                /\ profile' = r.entity
    /\ UNCHANGED <<config, defaultStorage, uploads, probe, students>>

NextProfile == UploadProfileImage \/ UpdateProfileImage \/ DeleteProfileImage

SpecProfile == Init /\ [][NextProfile]_vars

-----------------------------------------------------------------------------
(* models/user/Student.js: the pre('save') hook, and migrations/counterSeed.js *)

\* an update that creates the document but adds nothing (mutation of
\* findOneAndUpdate)
findOneAndUpdateWithoutInc(c) == [c EXCEPT !.exists = TRUE]

\* the counters collection after findOneAndUpdate({ model: 'student' },
\* { $inc: { count: 1 } }, { new: true, upsert: true }), which the database
\* applies as one operation: the document is created with count 1 when there
\* is none
findOneAndUpdate(c) ==
    [c EXCEPT !.counter = IF c.exists THEN c.counter + 1 ELSE 1, !.exists = TRUE]

\* the count the seed script creates the counter with, so that the first
\* student is STD1000
SeedCount == 999

\* `STD${counter.count}`
StudentId(count) == <<"STD", count>>

\* save() of a new document: the hook runs; with a studentId given by the
\* caller it calls next() at once
BeginSave ==
    /\ \E i \in Savers, given \in BOOLEAN :
        /\ students.saves[i].pc = "new"
        /\ students' = [students EXCEPT !.saves[i] =
                IF given
                THEN [@ EXCEPT !.pc = "saved", !.studentId = <<"given", i>>]
                ELSE [@ EXCEPT !.pc = "awaiting"]]
    /\ UNCHANGED <<config, defaultStorage, store, dirs, last, uploads, probe, profile>>

\* await Counter.findOneAndUpdate(...): the database increments and answers
\* with the new count
IncrementCounter ==
    /\ \E i \in Savers :
        /\ students.saves[i].pc = "awaiting"
        /\ \E c \in {findOneAndUpdate(students)} :
              students' = [c EXCEPT !.saves[i] =
                  [@ EXCEPT !.pc = "answered", !.count = c.counter,
                            !.increments = @ + 1]]
    /\ UNCHANGED <<config, defaultStorage, store, dirs, last, uploads, probe, profile>>

\* the promise rejects: the database refused the operation (a duplicate key
\* of two upserts that race, a lost connection), or applied it and the answer
\* was lost.  catch (err) { next(err) }: the save is aborted
FailIncrement ==
    /\ \E i \in Savers, applied \in BOOLEAN :
        /\ students.saves[i].pc = "awaiting"
        /\ \E c \in {IF applied THEN findOneAndUpdate(students) ELSE students} :
              students' = [c EXCEPT !.saves[i] = [@ EXCEPT !.pc = "aborted"]]
    /\ UNCHANGED <<config, defaultStorage, store, dirs, last, uploads, probe, profile>>

\* this.studentId = `STD${counter.count}`; next()
AssignStudentId ==
    /\ \E i \in Savers :
        /\ students.saves[i].pc = "answered"
        /\ students' = [students EXCEPT !.saves[i] =
                [@ EXCEPT !.pc = "saved", !.generated = TRUE,
                          !.studentId = StudentId(students.saves[i].count)]]
    /\ UNCHANGED <<config, defaultStorage, store, dirs, last, uploads, probe, profile>>

\* counterSeed: await Counter.findOne({ model: 'student' })
SeedFind ==
    /\ students.seed = "idle"
    /\ students' = [students EXCEPT !.seed = IF students.exists THEN "done" ELSE "missing"]
    /\ UNCHANGED <<config, defaultStorage, store, dirs, last, uploads, probe, profile>>

\* counterSeed: await Counter.create({ model: 'student', count: 999 }); the
\* unique index on model refuses it when the document exists by now
SeedCreate ==
    /\ students.seed = "missing"
    /\ students' = IF students.exists
                    THEN [students EXCEPT !.seed = "failed"]
                    ELSE [students EXCEPT !.seed = "done", !.counter = SeedCount,
                                          !.exists = TRUE]
    /\ UNCHANGED <<config, defaultStorage, store, dirs, last, uploads, probe, profile>>

NextStudents ==
    \/ BeginSave \/ IncrementCounter \/ FailIncrement \/ AssignStudentId
    \/ SeedFind \/ SeedCreate

SpecStudents == Init /\ [][NextStudents]_vars

-----------------------------------------------------------------------------
(* Properties *)

\* C1: after an uploadFile call that fails (the call throws to the caller of
\* uploadSingle, or the file's sub-result of uploadMultiple has success false)
\* nothing that call wrote, neither the primary file nor a thumbnail, is left
\* in the provider's backend, wherever in the call the failure occurred.
C1_FailedUploadLeavesNoArtifact ==
    (last.op \in {"uploadSingle", "uploadMultiple"} /\ last.provider # "none") =>
        \A i \in DOMAIN last.written :
            LET failedFile == IF last.op = "uploadSingle" THEN last.threw
                              ELSE ~last.results[i].success
            IN  failedFile =>
                    \A id \in last.written[i] : ~Exists(World, last.provider, id)

\* C2: round trip, for every provider: when uploadSingle has succeeded and
\* returned url, and the next call is deleteFile(url) on the same provider and
\* it returns, then the identifier it resolved is the native identifier under
\* which uploadSingle stored the primary artifact, that artifact is gone, and
\* fileExists(url) on that provider is false.
C2_UploadDeleteRoundTrip ==
    [][ ( /\ last.op = "uploadSingle" /\ ~last.threw
          /\ last'.op = "deleteFile" /\ ~last'.threw
          /\ last'.fileId = last.results[1].url
          /\ last'.provider = last.provider )
        => LET after == [store |-> store', dirs |-> dirs']
           IN  /\ last'.resolved = last.results[1].id
               /\ ~Exists(after, last.provider, last.results[1].id)
               /\ ~FileExists(last.provider, after, last.results[1].url) ]_vars

\* C3: on the filesystem provider, when deleteFile has returned for an
\* identifier and the next call is deleteFile on the same identifier with the
\* same storage type, the second call does not raise.
C3_SecondLocalDeleteDoesNotRaise ==
    [][ ( /\ last.op = "deleteFile" /\ last.provider = "local" /\ ~last.threw
          /\ last'.op = "deleteFile"
          /\ last'.fileId = last.fileId
          /\ last'.storageType = last.storageType )
        => ~last'.threw ]_vars

\* C4: uploadMultiple with N files, N within the maximum count, on a provider
\* that can be selected, does not throw and returns exactly N sub-results in
\* submission order; entry i carries the original name of file i, and has
\* success false with an error message exactly when file i failed (it would be
\* refused uploaded alone to an empty backend, as an oversized file is, or a
\* backend operation failed while it was uploaded) and success true
\* otherwise, whatever happened to the other files of the batch.
C4_UploadMultipleIsolatesFailures ==
    ( /\ last.op = "uploadMultiple"
      /\ Len(last.files) <= MultipleMaxCount
      /\ ~IsError(getStorageService(config, defaultStorage, last.storageType).error) )
    => /\ ~last.threw
       /\ Len(last.results) = Len(last.files)
       /\ \A i \in 1..Len(last.files) :
            LET file == Files[last.files[i]]
                alone == UploadFile(last.provider, config,
                                    [store |-> [p \in Providers |-> {}], dirs |-> {}],
                                    last.files[i], last.options[1],
                                    [timestamp |-> 1, randomString |-> "r1",
                                     fault |-> "none"])
                failedFile == IsError(alone.error) \/ last.faults[i] # "none"
            IN  /\ last.results[i].originalName = file.originalname
                /\ last.results[i].success = ~failedFile
                /\ failedFile = (last.results[i].error # "")
                /\ file.size > MaxFileSize(last.provider) => ~last.results[i].success

\* C4 witness: a batch of two whose first file failed and whose second file
\* was uploaded
C4_Witness ==
    /\ last.op = "uploadMultiple" /\ ~last.threw
    /\ Len(last.files) = 2 /\ Len(last.results) = 2
    /\ Files[last.files[1]].size > MaxFileSize(last.provider)
    /\ ~last.results[1].success
    /\ last.results[2].success

\* C5: uploadNamed on a provider that can be selected, with a field that
\* received more files than its maxCount, does not throw: every field present
\* is reported with one entry per file, and the files of a field beyond its
\* maxCount are failed sub-results.
C5_OverCountFieldIsASubResult ==
    ( /\ last.op = "uploadNamed"
      /\ ~IsError(getStorageService(config, defaultStorage, last.storageType).error)
      /\ \E fld \in DOMAIN last.files :
            Len(last.files[fld]) > NamedFields[fld].maxCount )
    => /\ ~last.threw
       /\ \A fld \in DOMAIN last.files :
            /\ fld \in DOMAIN last.results
            /\ Len(last.results[fld]) = Len(last.files[fld])
            /\ \A i \in 1..Len(last.files[fld]) :
                 i > NamedFields[fld].maxCount => ~last.results[fld][i].success

\* C6: uploadNamed on a provider that can be selected, no field above its
\* maxCount, with a file whose type category is not in its field's
\* allowedTypes: the call returns, every field present is mapped to one entry
\* per file in submission order, and the entry of such a file has success
\* false.
C6_DisallowedCategoryIsASubResult ==
    ( /\ last.op = "uploadNamed"
      /\ ~IsError(getStorageService(config, defaultStorage, last.storageType).error)
      /\ \A fld \in DOMAIN last.files :
            Len(last.files[fld]) <= NamedFields[fld].maxCount
      /\ \E fld \in DOMAIN last.files : \E i \in 1..Len(last.files[fld]) :
            getFileTypeCategory(Files[last.files[fld][i]].mimetype)
                \notin NamedFields[fld].allowedTypes )
    => /\ ~last.threw
       /\ \A fld \in DOMAIN last.files :
            /\ fld \in DOMAIN last.results
            /\ Len(last.results[fld]) = Len(last.files[fld])
            /\ \A i \in 1..Len(last.files[fld]) :
                 /\ last.results[fld][i].originalName
                        = Files[last.files[fld][i]].originalname
                 /\ getFileTypeCategory(Files[last.files[fld][i]].mimetype)
                        \notin NamedFields[fld].allowedTypes
                    => ~last.results[fld][i].success

\* C7: validation precedes all backend I/O: an upload of a file below the
\* 1024-byte minimum, above the size ceiling of the provider, or with an
\* invalid filename fails and performs no backend operation: uploadSingle
\* throws having invoked none, and in uploadMultiple such a file is a failed
\* sub-result that wrote nothing, a batch of such files invoking none.
C7_ValidationPrecedesBackendIO ==
    LET refused(f) ==
            \/ Files[f].size < MinFileSize
            \/ Files[f].size > MaxFileSize(last.provider)
            \/ IsError(validateFilename(Files[f].originalname))
    IN  /\ ( /\ last.op = "uploadSingle" /\ last.provider # "none"
             /\ last.options # <<>> /\ refused(last.files[1]) )
           => /\ last.threw
              /\ last.calls = <<>>
              /\ last.written = <<{}>>
        /\ ( /\ last.op = "uploadMultiple" /\ last.provider # "none" /\ ~last.threw )
           => /\ \A i \in 1..Len(last.files) :
                    refused(last.files[i]) =>
                        /\ ~last.results[i].success
                        /\ last.written[i] = {}
                        /\ last.faults[i] = "none"
              /\ (\A i \in 1..Len(last.files) : refused(last.files[i]))
                    => last.calls = <<>>

\* C7 witness: a file below the minimum size was handed to a provider, which
\* refused it
C7_Witness ==
    /\ last.op = "uploadSingle" /\ last.provider # "none" /\ last.options # <<>>
    /\ Files[last.files[1]].size < MinFileSize
    /\ last.threw

\* C8: a validation failure inside uploadSingle reaches the caller as the
\* validation error itself: a file below the 1024-byte minimum handed to a
\* provider fails with the client error "File size is too small" (status 400).
C8_ValidationErrorReachesCaller ==
    ( /\ last.op = "uploadSingle" /\ last.provider # "none" /\ last.options # <<>>
      /\ Files[last.files[1]].size < MinFileSize )
    => /\ last.threw
       /\ last.error = AppError("File size is too small", 400)

\* C9: an orchestrator operation (uploadSingle, uploadMultiple with a batch
\* within the maximum count, uploadNamed, deleteFile) that names a registered
\* provider whose validateConfig() is false fails with the
\* provider-not-configured error, invokes no backend operation and selects no
\* provider.
C9_UnconfiguredProviderIsRefused ==
    ( /\ last.op # "none"
      /\ last.op = "uploadMultiple" => Len(last.files) <= MultipleMaxCount
      /\ last.storageType \in Providers
      /\ ~ValidateConfig(last.storageType, config) )
    => /\ last.threw
       /\ last.error = AppError("Storage service is not properly configured", 500)
       /\ last.calls = <<>>
       /\ last.provider = "none"

\* C10: the default provider is always a registered provider whose
\* validateConfig() is true, the configured default when that one is
\* registered and configured and "local" otherwise, and no operation changes
\* it.
C10_DefaultProviderIsValidAndFixed ==
    /\ [](/\ defaultStorage \in Providers
          /\ ValidateConfig(defaultStorage, config)
          /\ defaultStorage =
                IF config.defaultStorage \in Providers
                   /\ ValidateConfig(config.defaultStorage, config)
                THEN config.defaultStorage
                ELSE "local")
    /\ [][defaultStorage' = defaultStorage]_vars

\* C10 witness: the configured default could not be used, local stands in for
\* it, and a failed operation has run
C10_Witness ==
    /\ config.defaultStorage # "local"
    /\ (config.defaultStorage \in Providers => ~ValidateConfig(config.defaultStorage, config))
    /\ defaultStorage = "local"
    /\ last.op # "none" /\ last.threw

\* C11: uploadMultiple with more files than the maxCount of the 'multiple'
\* upload type (10) fails with the too-many-files error (status 400) before a
\* provider is selected or called, whatever storage type was asked for: no
\* provider is selected, no backend operation is invoked, no file of the batch
\* is written or reported as a sub-result, and the backend is as it was.
C11_OverCountBatchFailsFast ==
    [][ ( /\ last'.op = "uploadMultiple"
          /\ Len(last'.files) > MultipleMaxCount )
        => /\ last'.threw
           /\ last'.error = AppError("Maximum files allowed", 400)
           /\ last'.provider = "none"
           /\ last'.calls = <<>>
           /\ last'.written = <<>>
           /\ last'.results = <<>>
           /\ store' = store
           /\ dirs' = dirs ]_vars

\* C11 witness: a batch of eleven files was refused although the storage type
\* asked for is a provider that is not configured
C11_Witness ==
    /\ last.op = "uploadMultiple" /\ Len(last.files) = MultipleMaxCount + 1
    /\ last.threw
    /\ last.storageType \in Providers
    /\ ~ValidateConfig(last.storageType, config)

\* C12: for every provider, when uploadSingle of an image returns with a
\* thumbnail url, the thumbnail was stored under an identifier different from
\* the primary artifact's: the call wrote two identifiers, both hold an
\* artifact afterwards, and what is stored under the primary identifier is the
\* (optionally optimized) main image, not the thumbnail.
C12_ThumbnailBesideThePrimary ==
    ( /\ last.op = "uploadSingle" /\ ~last.threw
      /\ last.results[1].thumbnailUrl # <<>> )
    => /\ Cardinality(last.written[1]) = 2
       /\ \A id \in last.written[1] : Exists(World, last.provider, id)
       /\ \E a \in store[last.provider] :
            a.id = last.results[1].id /\ a.kind \in {"original", "optimized"}

\* C13: thumbnail failures are not fatal, in every provider: when the backend
\* refuses the thumbnail after the primary artifact was written, or sharp
\* fails to produce it, uploadSingle still returns a result with success true
\* and the primary url; and when the removal of the thumbnail fails after the
\* primary artifact was removed, deleteFile still returns.
C13_ThumbnailFailuresAreNotFatal ==
    /\ ( /\ last.op = "uploadSingle" /\ last.provider # "none"
         /\ last.faults[1] = "thumbwrite" )
       => /\ ~last.threw
          /\ Len(last.results) = 1
          /\ last.results[1].success
          /\ last.results[1].url # <<>>
    /\ ( /\ last.op = "deleteFile" /\ last.provider # "none"
         /\ last.envs[1].fault = "thumbwrite"
         /\ last.calls \in {<<"pathExists", "remove", "pathExists", "remove">>,
                            <<"s3.deleteObject", "s3.deleteObject">>} )
       => ~last.threw

\* C14: when generateThumbnail returns null, because thumbnails are disabled
\* or because the image processing failed, uploadSingle of a valid image with
\* a thumbnail requested on the local or the S3 provider still succeeds: the
\* result has success true, a non-empty primary url and a null thumbnailUrl,
\* and the call wrote the primary artifact and nothing else.
C14_NullThumbnailIsNoFailure ==
    ( /\ last.op = "uploadSingle" /\ last.provider \in {"local", "s3"}
      /\ Files[last.files[1]].mimetype = Mime("image", <<"png">>)
      /\ Files[last.files[1]].size >= MinFileSize
      /\ Files[last.files[1]].size <= MaxFileSize(last.provider)
      /\ ~IsError(validateFilename(Files[last.files[1]].originalname))
      /\ last.options[1].generateThumbnail
      /\ \/ ~config.generateThumbnails /\ last.envs[1].fault = "none"
         \/ last.envs[1].fault = "thumbgen" )
    => /\ ~last.threw
       /\ Len(last.results) = 1
       /\ last.results[1].success
       /\ last.results[1].url # <<>>
       /\ last.results[1].thumbnailUrl = <<>>
       /\ last.written[1] = {last.results[1].id}
       /\ \A a \in store[last.provider] :
            a.id \in last.written[1] => a.kind # "thumbnail"

\* C14 witness: thumbnails are enabled, the image processing failed during an
\* upload that asked for a thumbnail, and the upload returned
C14_Witness ==
    /\ last.op = "uploadSingle" /\ last.provider \in {"local", "s3"}
    /\ config.generateThumbnails
    /\ last.options[1].generateThumbnail
    /\ last.envs[1].fault = "thumbgen"
    /\ IsImage(Files[last.files[1]].mimetype)
    /\ ~last.threw

\* C15: the url of a successful upload is resolvable: when uploadSingle has
\* succeeded on the local or the S3 provider and the next call is fileExists
\* on the returned url, with that provider as storageType or with no
\* storageType, and the backend answers, then fileExists returns true.
C15_UploadedUrlIsResolvable ==
    [][ ( /\ last.op = "uploadSingle" /\ ~last.threw
          /\ last.provider \in {"local", "s3"}
          /\ last'.op = "fileExists"
          /\ last'.fileId = last.results[1].url
          /\ last'.storageType \in {Undefined, last.provider}
          /\ last'.envs[1].fault = "none" )
        => last'.results = <<TRUE>> ]_vars

\* C16: when uploadSingle has succeeded on the local or the S3 provider and
\* the next call is getFileInfo on the returned url with the same provider as
\* storageType, and the backend answers, then getFileInfo returns a FileInfo
\* whose MIME type is the MIME type of the uploaded file and, when the stored
\* bytes were not re-encoded, whose size is the size of the upload result.
C16_InfoMatchesUpload ==
    [][ ( /\ last.op = "uploadSingle" /\ ~last.threw
          /\ last.provider \in {"local", "s3"}
          /\ last'.op = "getFileInfo"
          /\ last'.fileId = last.results[1].url
          /\ last'.storageType = last.provider
          /\ last'.envs # <<>> /\ last'.envs[1].fault = "none" )
        => /\ ~last'.threw
           /\ Len(last'.results) = 1
           /\ last'.results[1].mimeType = last.results[1].mimeType
           /\ (\E a \in store[last.provider] :
                    a.id = last.results[1].id /\ a.kind = "original")
              => last'.results[1].size = last.results[1].size ]_vars

\* C17: getFileInfo through the orchestrator on the local provider, for an
\* identifier under which nothing exists, fails with a not-found error
\* (status 404), which a caller can tell from an internal failure (status 500).
C17_MissingFileIsNotFound ==
    ( /\ last.op = "getFileInfo" /\ last.provider = "local"
      /\ ~PathExists(World, LocalResolve(last.fileId)) )
    => /\ last.threw
       /\ last.error.status = 404

\* C18: fileExists never raises: for every identifier and every storageType
\* (a configured provider, an unconfigured one, an unknown name, none) it
\* returns a boolean, and it returns false whenever the provider cannot be
\* selected, whenever the backend refuses the lookup, and whenever the
\* provider holds nothing under what the identifier resolves to.
C18_FileExistsNeverRaises ==
    last.op = "fileExists"
    => /\ ~last.threw
       /\ last.results \in {<<TRUE>>, <<FALSE>>}
       /\ ( \/ (last.storageType # Undefined /\ last.storageType \notin Providers)
            \/ (last.storageType \in Providers
                /\ ~ValidateConfig(last.storageType, config)) )
          => (last.provider = "none" /\ last.results = <<FALSE>>)
       /\ (last.provider # "none" /\ last.envs[1].fault # "none")
          => last.results = <<FALSE>>
       /\ (last.provider # "none" /\ ~FileExists(last.provider, World, last.fileId))
          => last.results = <<FALSE>>

\* C18 witness: fileExists was asked with a storage type that is no provider,
\* and with one that is not configured, and answered false
C18_Witness ==
    /\ last.op = "fileExists"
    /\ last.storageType \in {"ftp"} \cup {p \in Providers : ~ValidateConfig(p, config)}
    /\ last.results = <<FALSE>>

\* C19: the provider deleteFile, getFileInfo and generateSignedUrl dispatch
\* to: a given storageType alone decides, whatever the identifier looks like;
\* with none given, an identifier containing 'cloudinary.com' goes to
\* Cloudinary, else one containing 'amazonaws.com' to S3, else to local.  The
\* three operations follow the same rule, so they choose the same provider for
\* the same identifier and options; the call fails without a provider when
\* the one chosen is unknown or not configured.
C19_DispatchByStorageTypeThenHost ==
    last.op \in {"deleteFile", "getFileInfo", "generateSignedUrl"}
    => LET chosen ==
               IF last.storageType # Undefined THEN last.storageType
               ELSE IF \E i \in 1..Len(last.fileId) : last.fileId[i] = "cloudinary.com"
                    THEN "cloudinary"
               ELSE IF \E i \in 1..Len(last.fileId) : last.fileId[i] = "amazonaws.com"
                    THEN "s3"
               ELSE "local"
       IN  IF chosen \in Providers /\ ValidateConfig(chosen, config)
           THEN last.provider = chosen
           ELSE last.provider = "none" /\ last.threw

\* C19 witness: getFileInfo with no storage type, on a url that carries both
\* host names, went to Cloudinary
C19_Witness ==
    /\ last.op = "getFileInfo"
    /\ last.storageType = Undefined
    /\ last.fileId = MixedUrl
    /\ last.provider = "cloudinary"

\* C20: any two calls of generateUniqueFilename return different names, also
\* when they are given the same original filename and read the same
\* timestamp; so two uploadFile calls that overlap, with the same upload type
\* on the same provider, never write to the same path or object key, and
\* neither replaces what the other has stored.
C20_UniqueNamesNeverCollide ==
    \A i \in Requests :
        /\ ~uploads[i].overwrote
        /\ \A j \in Requests \ {i} :
            (uploads[i].pc # "idle" /\ uploads[j].pc # "idle")
            => /\ uploads[i].filename # uploads[j].filename
               /\ uploads[i].provider = uploads[j].provider
                  => uploads[i].id # uploads[j].id

\* C21: uploadFile of every provider rejects a file whose declared MIME type
\* is not an allowed one, whatever the extension of its name, and persists
\* nothing: an uploadSingle that reached a provider with a file declared
\* application/x-msdownload throws and writes nothing.
C21_DisallowedMimeTypeIsRejected ==
    ( /\ last.op = "uploadSingle" /\ last.provider # "none"
      /\ Files[last.files[1]].mimetype \notin LocalAllowedMimeTypes )
    => /\ last.threw
       /\ last.written[1] = {}

\* C22: getFileTypeCategory gives every MIME string its category; in
\* particular an image type is "image", and every PDF and office-document type
\* of the local provider's allowed list (pdf, doc, docx, xls, xlsx) is
\* "document", the category the named fields resume, certificate and
\* assignment allow.
C22_OfficeDocumentsAreDocuments ==
    probe.fn = "getFileTypeCategory"
        => /\ IsImage(probe.args[1]) => probe.out = "image"
           /\ probe.args[1] \in OfficeDocumentMimeTypes => probe.out = "document"

\* C28: the data of a getUploadConfig response holds no provider credential
\* (accessKeyId, secretAccessKey, apiKey, apiSecret), and a configuration is
\* in it only if the provider's validateConfig() is true.
C28_ConfigQueryHoldsNoSecret ==
    (probe.fn = "getUploadConfig" /\ ~probe.threw)
        => /\ \A k \in DOMAIN probe.out.config \cap
                        {"accessKeyId", "secretAccessKey", "apiKey", "apiSecret"} :
                    probe.out.config[k] = Undefined
           /\ ValidateConfig(probe.out.provider, config)

\* C30: fileFilter accepts the file, or rejects it with a 400 error; it never
\* hands an error of another kind to its callback.
C30_FileFilterDecidesByPolicy ==
    probe.fn = "fileFilter" => (probe.out \/ probe.error.status = 400)

\* C23: uploadMultiple rolls nothing back across files: after a batch in
\* which an earlier file was reported success:true and a later file
\* success:false, everything the earlier upload wrote is still in the backend,
\* and nothing the failed upload wrote is.
C23_NoCrossFileRollback ==
    (last.op = "uploadMultiple" /\ last.provider # "none" /\ ~last.threw) =>
        \A i \in DOMAIN last.results, j \in DOMAIN last.results :
            (i < j /\ last.results[i].success /\ ~last.results[j].success
                   /\ last.files[i] # last.files[j])
                => /\ \A id \in last.written[i] : Exists(World, last.provider, id)
                   /\ \A id \in last.written[j] : ~Exists(World, last.provider, id)

C25_LocalUrlReachesTheLocalProvider ==
    [][ ( /\ last.op = "uploadSingle" /\ ~last.threw
          /\ last.provider = "local"
          /\ last'.op \in {"deleteFile", "getFileInfo"}
          /\ last'.fileId = last.results[1].url
          /\ last'.storageType = Undefined )
        => /\ last'.provider = "local"
           /\ (last'.op = "deleteFile" /\ last'.envs[1].fault = "none")
                => \A a \in store'["local"] : a.id # last.results[1].id ]_vars

\* C26: the local provider's deleteFile removes nothing outside its base
\* upload path: whatever identifier it is given, every file that a deleteFile
\* call on the local provider removes from the filesystem lies below
\* ./uploads.
C26_LocalDeleteStaysUnderBasePath ==
    [][ (last'.op = "deleteFile" /\ last'.provider = "local")
        => \A a \in store["local"] :
                (\A b \in store'["local"] : b.id # a.id)
                    => StartsWith(a.id, PathNormalize(LocalUploadPath) \o <<"/">>) ]_vars

\* C27: after every request of the profile image handlers, the update
\* handler's failures included, the profileImage stored in the entity's
\* document is null or the url of an artifact that is in storage.
C27_ProfileImageIsNullOrStored ==
    profile.profileImage # <<>> => Exists(World, profile.provider, profile.id)

\* C29: when new students without a studentId are saved at the same time,
\* each save that assigns an id has made exactly one increment of the
\* 'student' counter, its id is "STD" followed by the count that increment
\* returned, the ids assigned are pairwise distinct, a save whose increment
\* failed has no id, and the counter never decreases.
C29_StudentIdsAreDistinct ==
    /\ [](\A i \in Savers :
            LET doc == students.saves[i]
            IN  /\ (doc.pc = "saved" /\ doc.generated)
                    => /\ doc.increments = 1
                       /\ doc.studentId = StudentId(doc.count)
                       /\ \A j \in Savers \ {i} :
                            students.saves[j].generated
                                => students.saves[j].studentId # doc.studentId
                /\ doc.pc = "aborted" => doc.studentId = <<>>)
    /\ [][students'.counter >= students.counter]_vars

\* C29 witness: two saves overlapped, the one that incremented later was
\* given its id first, and a third save was aborted
C29_Witness ==
    \E i \in Savers, j \in Savers, k \in Savers :
        /\ students.saves[i].pc = "saved" /\ students.saves[i].generated
        /\ students.saves[j].pc = "answered"
        /\ students.saves[j].count < students.saves[i].count
        /\ students.saves[k].pc = "aborted"

====
